---- MODULE Spec2Model ----
(***************************************************************************)
(* Round-lifecycle model of the pop-and-learn mini-games.                  *)
(*                                                                         *)
(* Every screen (colors.tsx, math.tsx, ...) is a React function component. *)
(* Its state is modelled as one record per screen: the useState cells and  *)
(* useRef cells are fields with the names of the source, the timers armed  *)
(* with setTimeout/setInterval are explicit sets of pending callbacks, and *)
(* the expo-speech utterance queue is a sequence.  One action is one       *)
(* handler or one callback of the host event loop, run to completion       *)
(* (handlers never interleave).  A callback created in an earlier render   *)
(* carries the values its closure captured.                                *)
(*                                                                         *)
(* Fields whose name starts with "h" are history fields: they record what  *)
(* happened in the current round and are read only by the properties.      *)
(***************************************************************************)
EXTENDS Integers, Sequences, FiniteSets, TLC

VARIABLES variant, colors, math, retry, speed, balloon, free, gen, theme, abc

vars ==
    <<variant, colors, math, retry, speed, balloon, free, gen, theme, abc>>

(***************************************************************************)
(* Bounds of the model                                                     *)
(***************************************************************************)
\* bubbles of the colour grid and of the arithmetic grid (TOTAL_BUBBLES is
\* 16 in both screens)
ColorsCells == 3
MathCells == 2
\* pops that would raise the score above the bound are not taken
ColorsMaxScore == 20
MathMaxScore == 10
SpeedMaxScore == 7
BalloonMaxScore == 20
\* bubbles of the speed grid, balloons on the easy level
SpeedCells == 2
BalloonCells == 2
\* the free-pop grid has 1..FreeCells bubbles (TOTAL_BUBBLES is 25 in the
\* source); shapes completed before the model stops completing rounds
FreeCells == 2
FreeMaxCompleted == 2
\* one step of the clock, in milliseconds
TickMs == 10000
\* exchanges of neighbours by which a sort reorders a population
GenMaxSwaps == 2
\* values Math.random() takes: r / RandomSteps for r in 0..RandomSteps-1
RandomSteps == 10

\* the utterances the queue of the speech module holds in the model
SpeechMaxQueue == 2
\* slots of the arithmetic grid whose population is generated step by step
\* (TOTAL_BUBBLES, 16 in the source) and the retry budget (maxAttempts, 100)
AnswerSlots == 4
MaxAttempts == 6
\* bubbles of the letter grid and how many of them hold the target
\* (TOTAL_BUBBLES = 16 and targetCount = 5 in the source); rounds completed
\* before the model stops completing rounds
AbcCells == 3
AbcTargetCount == 2
AbcMaxCompleted == 4
\* the width of the window and the balloons whose placement is followed
\* step by step (6, 10 or 14 in the source)
SCREEN_WIDTH == 200
PlaceCount == 3
\* calls of playSound the model follows
SoundMaxCalls == 3
\* the attempts after which the do-while loop of the placement breaks
PLACE_ATTEMPTS == 10

(***************************************************************************)
(* Helpers shared by the screens                                           *)
(***************************************************************************)
Max(a, b) == IF a >= b THEN a ELSE b

\* setTimeout / setInterval return a handle no live timer uses
NewHandle(live) == CHOOSE h \in 1..(Cardinality(live) + 1) :
                      h \notin live /\ \A k \in 1..(h - 1) : k \in live

AllFalse(n) == [i \in 1..n |-> FALSE]

\* PopBubble.handlePress without its first line
PopBubbleHandlePress_AlwaysNotifies(isPopped, disabled) == TRUE

\* PopBubble.handlePress: a press on a bubble rendered popped or disabled
\* returns at once; otherwise the screen's onPop is called
PopBubbleHandlePress(isPopped, disabled) == ~(isPopped \/ disabled)

\* currentProblem before the first problem is generated (null)
NoProblem == [num1 |-> 0, num2 |-> 0, type |-> "none", answer |-> 0]

(***************************************************************************)
(* colors.tsx -- the timed colour round                                    *)
(*                                                                         *)
(* intervals         : the handles of the live setInterval countdowns.     *)
(* nextRoundTimeouts : the pending setTimeout(initializeGame, 1500)        *)
(*                     callbacks of handlePop; no ref keeps their handle   *)
(*                     and they run the same code, so they are kept once.  *)
(* speech            : the expo-speech queue.                              *)
(* hProgress, hTicks : incrementColorsLearned() calls and countdown ticks  *)
(*                     of the round on screen.                             *)
(***************************************************************************)
GAME_DURATION == 30
\* initializeGame: targetColorCount (8 of the 16 bubbles in the source)
targetColorCount == (ColorsCells + 1) \div 2

\* the entries of LEARNING_COLORS the model draws from (9 in the source)
LEARNING_COLORS == {"Red", "Pink"}

\* the populations initializeGame can produce for a target: targetColorCount
\* bubbles of the target colour, the others of another colour, shuffled
ColorsPopulations(target) ==
    { p \in [1..ColorsCells -> LEARNING_COLORS] :
        Cardinality({i \in 1..ColorsCells : p[i] = target}) = targetColorCount }

\* speakText of colors.tsx: Speech.stop() then Speech.speak(text)
ColorsSpeakText(c, text) == [c EXCEPT !.speech = <<text>>]

\* startTimer: clear the interval timerRef points to, arm a new one
ColorsStartTimer(c) ==
    LET live == c.intervals \ {c.timerRef}
        h    == NewHandle(live)
    IN  [c EXCEPT !.intervals = live \cup {h}, !.timerRef = h]

\* initializeGame.  The useState setters have no effect once the component
\* is unmounted; speech and timers are outside React and still act.
ColorsInitializeGame(c, target, shuffled) ==
    LET st == IF c.mounted
              THEN [c EXCEPT !.timeRemaining = GAME_DURATION,
                             !.showResults = FALSE,
                             !.targetColor = target,
                             !.bubbleColors = shuffled,
                             !.popped = AllFalse(ColorsCells),
                             !.remainingBubbles = targetColorCount,
                             !.gameActive = TRUE,
                             !.hProgress = 0,
                             !.hTicks = 0]
              ELSE c
    IN  ColorsStartTimer(
          ColorsSpeakText(st, "find"))

\* audioSetting is the setting GameContext holds ("full" by default, or the
\* stored one); colors.tsx takes only incrementPops and
\* incrementColorsLearned from the context and never reads the setting, so
\* the model opens the screen with one setting that allows everything and
\* one that allows nothing
ColorsFresh ==
    [mounted |-> TRUE, audioSetting |-> "full", targetColor |-> "Red",
     bubbleColors |-> [i \in 1..ColorsCells |-> "Red"],
     popped |-> AllFalse(ColorsCells),
     score |-> 0, remainingBubbles |-> 0, gameActive |-> FALSE,
     timeRemaining |-> GAME_DURATION, showResults |-> FALSE,
     timerRef |-> 0, intervals |-> {}, nextRoundTimeouts |-> {},
     speech |-> <<>>,
     hProgress |-> 0, hTicks |-> 0]

\* the state after the mount effects have called initializeGame
ColorsInit ==
    \E audio \in {"full", "mute"} :
      \E target \in LEARNING_COLORS : \E shuffled \in ColorsPopulations(target) :
        colors = ColorsInitializeGame([ColorsFresh EXCEPT !.audioSetting = audio],
                                      target, shuffled)

\* the setInterval callback of startTimer, ending the round at prev <= 0
ColorsTickBody_LateStop(c) ==
    LET said == IF c.timeRemaining = 10 THEN ColorsSpeakText(c, "tenLeft")
                ELSE IF c.timeRemaining = 5 THEN ColorsSpeakText(c, "fiveLeft")
                ELSE c
    IN  IF c.timeRemaining <= 0
        THEN [ColorsSpeakText(said, "timeUp") EXCEPT
                 !.intervals = @ \ {c.timerRef},
                 !.gameActive = FALSE,
                 !.showResults = TRUE,
                 !.timeRemaining = 0,
                 !.hTicks = @ + 1]
        ELSE [said EXCEPT !.timeRemaining = @ - 1, !.hTicks = @ + 1]

\* the setInterval callback of startTimer
ColorsTickBody(c) ==
    LET said == IF c.timeRemaining = 10 THEN ColorsSpeakText(c, "tenLeft")
                ELSE IF c.timeRemaining = 5 THEN ColorsSpeakText(c, "fiveLeft")
                ELSE c
    IN  IF c.timeRemaining <= 1
        THEN [ColorsSpeakText(said, "timeUp") EXCEPT
                 !.intervals = @ \ {c.timerRef},
                 !.gameActive = FALSE,
                 !.showResults = TRUE,
                 !.timeRemaining = 0,
                 !.hTicks = @ + 1]
        ELSE [said EXCEPT !.timeRemaining = @ - 1, !.hTicks = @ + 1]

ColorsTick ==
    /\ variant = "colors"
    /\ colors.intervals # {}
    /\ \E h \in colors.intervals :
         \* the updater passed to setTimeRemaining does not run after unmount
         colors' = IF colors.mounted THEN ColorsTickBody(colors) ELSE colors
    /\ UNCHANGED <<variant, math, retry, speed, balloon, free, gen, theme, abc>>

\* handlePop(index, color), completing the round at remainingBubbles <= 0
ColorsHandlePopBody_LateDone(c, index) ==
    LET color == c.bubbleColors[index]
        hit   == [c EXCEPT !.score = @ + 10, !.remainingBubbles = @ - 1]
        done  == [ColorsSpeakText(hit, "great") EXCEPT
                     !.nextRoundTimeouts = @ \cup {"initializeGame"},
                     !.hProgress = @ + 1]
        after == IF color = c.targetColor
                 THEN IF c.remainingBubbles <= 0 THEN done
                      ELSE IF c.remainingBubbles <= 3
                           THEN ColorsSpeakText(hit, "left")
                           ELSE hit
                 ELSE [ColorsSpeakText(c, "wrong") EXCEPT
                          !.score = Max(0, @ - 5)]
    IN  IF ~c.gameActive THEN c
        ELSE [after EXCEPT !.popped[index] = TRUE]

\* handlePop that counts a pop of another colour as a target found
ColorsHandlePopBody_WrongCounts(c, index) ==
    LET color == c.bubbleColors[index]
        hit   == [c EXCEPT !.score = @ + 10, !.remainingBubbles = @ - 1]
        done  == [ColorsSpeakText(hit, "great") EXCEPT
                     !.nextRoundTimeouts = @ \cup {"initializeGame"},
                     !.hProgress = @ + 1]
        after == IF color = c.targetColor
                 THEN IF c.remainingBubbles <= 1 THEN done
                      ELSE IF c.remainingBubbles <= 3
                           THEN ColorsSpeakText(hit, "left")
                           ELSE hit
                 ELSE [ColorsSpeakText(c, "wrong") EXCEPT
                          !.score = Max(0, @ - 5),
                          !.remainingBubbles = @ - 1]
    IN  IF ~c.gameActive THEN c
        ELSE [after EXCEPT !.popped[index] = TRUE]

\* handlePop(index, color)
ColorsHandlePopBody(c, index) ==
    LET color == c.bubbleColors[index]
        hit   == [c EXCEPT !.score = @ + 10, !.remainingBubbles = @ - 1]
        \* hProgress counts the incrementColorsLearned() calls of the round
        done  == [ColorsSpeakText(hit, "great") EXCEPT
                     !.nextRoundTimeouts = @ \cup {"initializeGame"},
                     !.hProgress = @ + 1]
        after == IF color = c.targetColor
                 THEN IF c.remainingBubbles <= 1 THEN done
                      ELSE IF c.remainingBubbles <= 3
                           THEN ColorsSpeakText(hit, "left")
                           ELSE hit
                 ELSE [ColorsSpeakText(c, "wrong") EXCEPT
                          !.score = Max(0, @ - 5)]
    IN  IF ~c.gameActive THEN c
        ELSE [after EXCEPT !.popped[index] = TRUE]

\* a press on bubble index: PopBubble is rendered with isPopped =
\* color.popped and disabled = color.popped || !gameActive
ColorsPress(c, index) ==
    IF PopBubbleHandlePress(c.popped[index],
                            c.popped[index] \/ ~c.gameActive)
    THEN ColorsHandlePopBody(c, index)
    ELSE c

ColorsHandlePop(index) ==
    /\ variant = "colors"
    /\ colors.mounted
    /\ ColorsPress(colors, index).score <= ColorsMaxScore
    /\ colors' = ColorsPress(colors, index)
    /\ UNCHANGED <<variant, math, retry, speed, balloon, free, gen, theme, abc>>

\* the setTimeout(() => initializeGame(), 1500) armed by handlePop fires
ColorsNextRoundTimeout ==
    /\ variant = "colors"
    /\ colors.nextRoundTimeouts # {}
    /\ \E target \in LEARNING_COLORS : \E shuffled \in ColorsPopulations(target) :
         colors' = ColorsInitializeGame(
                     [colors EXCEPT !.nextRoundTimeouts = {}],
                     target, shuffled)
    /\ UNCHANGED <<variant, math, retry, speed, balloon, free, gen, theme, abc>>

\* the Play Again button of the results overlay
ColorsPlayAgain ==
    /\ variant = "colors"
    /\ colors.mounted
    /\ colors.showResults
    /\ \E target \in LEARNING_COLORS : \E shuffled \in ColorsPopulations(target) :
         colors' = ColorsInitializeGame(
                     ColorsSpeakText(colors, "again"), target, shuffled)
    /\ UNCHANGED <<variant, math, retry, speed, balloon, free, gen, theme, abc>>

\* the cleanup of the mount effect: the screen is left
ColorsUnmount ==
    /\ variant = "colors"
    /\ colors.mounted
    /\ colors' = [colors EXCEPT !.mounted = FALSE,
                                !.intervals = @ \ {colors.timerRef},
                                !.speech = <<>>]
    /\ UNCHANGED <<variant, math, retry, speed, balloon, free, gen, theme, abc>>

\* the utterance at the head of the expo-speech queue finishes
ColorsSpeechDone ==
    /\ variant = "colors"
    /\ colors.speech # <<>>
    /\ colors' = [colors EXCEPT !.speech = Tail(@)]
    /\ UNCHANGED <<variant, math, retry, speed, balloon, free, gen, theme, abc>>

(***************************************************************************)
(* Properties of the colour round                                          *)
(***************************************************************************)
ColorsAllTargetsPopped(c) ==
    \A i \in 1..ColorsCells : c.bubbleColors[i] = c.targetColor => c.popped[i]

ColorsNoPops(c) == \A i \in 1..ColorsCells : ~c.popped[i]

\* C38: in every state of the colour screen the remaining count is the
\* number of bubbles of the target colour that are not popped, and it is
\* not negative.
C38_RemainingCountsUnpoppedTargets ==
    variant = "colors" =>
       /\ colors.remainingBubbles
             = Cardinality({i \in 1..ColorsCells :
                              /\ colors.bubbleColors[i] = colors.targetColor
                              /\ ~colors.popped[i]})
       /\ colors.remainingBubbles >= 0

\* a round under way with a target found, a target left and another
\* colour popped
C38_Witness ==
    /\ variant = "colors" /\ colors.mounted /\ colors.gameActive
    /\ colors.remainingBubbles = 1
    /\ \E i, j \in 1..ColorsCells :
          /\ colors.popped[i] /\ colors.bubbleColors[i] = colors.targetColor
          /\ colors.popped[j] /\ colors.bubbleColors[j] # colors.targetColor

\* C4: the countdown starts at GAME_DURATION = 30 and loses one per tick;
\* after 30 ticks without a pop the round shows the results, is inactive and
\* has not incremented the progress counter.
C4_TimeoutPath ==
    (variant = "colors" /\ colors.mounted /\ ColorsNoPops(colors)) =>
       /\ colors.hTicks <= GAME_DURATION
       /\ colors.timeRemaining = GAME_DURATION - colors.hTicks
       /\ colors.hTicks < GAME_DURATION =>
             colors.gameActive /\ ~colors.showResults
       /\ colors.hTicks = GAME_DURATION =>
             /\ colors.showResults
             /\ ~colors.gameActive
             /\ colors.hProgress = 0
             /\ colors.intervals = {}

C4_Witness ==
    /\ variant = "colors" /\ colors.mounted /\ ColorsNoPops(colors)
    /\ colors.hTicks = GAME_DURATION
    /\ colors.showResults
    /\ colors.hProgress = 0

\* C5: once the screen is unmounted no timer armed by the round is live (so
\* none can fire later, start a round or arm a timer).
C5_NoTimerAfterUnmount ==
    (variant = "colors" /\ ~colors.mounted) =>
       /\ colors.intervals = {}
       /\ colors.nextRoundTimeouts = {}

\* C21: once the round has timed out (results shown, round inactive) it
\* stays so until the player presses Play Again: no other step starts a
\* round, also not the pending celebration delay of a completion.
C21_TimeoutIsFinal ==
    [][(variant = "colors" /\ colors.mounted
          /\ colors.showResults /\ ~colors.gameActive
          /\ ~ColorsPlayAgain)
         => (colors'.showResults /\ ~colors'.gameActive)]_vars

NextColors ==
    \/ ColorsTick
    \/ \E index \in 1..ColorsCells : ColorsHandlePop(index)
    \/ ColorsNextRoundTimeout
    \/ ColorsPlayAgain
    \/ ColorsUnmount
    \/ ColorsSpeechDone

(***************************************************************************)
(* math.tsx -- the arithmetic round (next round gated on the narration)    *)
(*                                                                         *)
(* speech       : the expo-speech queue, head = the utterance in flight.   *)
(* events       : onDone callbacks the native speech module has emitted    *)
(*                and the event loop has not delivered yet (onStopped is   *)
(*                delivered at once by Speech.stop()).                     *)
(* startDelays  : the pending 300 ms callbacks of initializeGame, "current"*)
(*                for the one armed by the round on screen and "stale" for *)
(*                those of superseded rounds (which are due earlier).      *)
(* initDelays   : the pending 100 ms callbacks of toggleDifficulty.        *)
(* hintTimeouts : the pending 20 s hint callbacks: "held" is the one whose  *)
(*                handle timerRef holds, "lost" stands for those whose     *)
(*                handle was overwritten in timerRef (they run the same    *)
(*                code and no ref tells them apart).  timerRef is 0 for    *)
(*                null and 1 when it holds a handle, live or not.          *)
(* A closure (clo) holds what a callback captured in the render that       *)
(* created it: the difficulty.  The audio setting is chosen when the       *)
(* screen is opened and kept for the session.  hProgress counts the        *)
(* incrementMathProblems() calls of the round on screen.                   *)
(***************************************************************************)
AudioSettings == {"full", "noSpeech", "noSound", "mute"}
SpeechOff(audio) == audio = "noSpeech" \/ audio = "mute"

NoClo == [diff |-> "none"]
MathClo(m) == [diff |-> m.difficulty]

\* generateProblem: maxNum is 5 (easy) or 10 (hard); the model draws both
\* operands from ModelOperands, num2 <= num1 for a subtraction
\* a maxNum that does not look at the difficulty
MathMaxNum_AlwaysTen(diff) == 10

MathMaxNum(diff) == IF diff = "easy" THEN 5 ELSE 10
ModelOperands == {1}

MathGenerateProblem(diff) ==
    LET ops == {n \in ModelOperands : n <= MathMaxNum(diff)}
    IN  { [num1 |-> a, num2 |-> b, type |-> "addition", answer |-> a + b] :
            a \in ops, b \in ops }
        \cup
        { [num1 |-> ab[1], num2 |-> ab[2], type |-> "subtraction",
           answer |-> ab[1] - ab[2]] :
            ab \in {x \in ops \X ops : x[2] <= x[1]} }

\* generateBubbleAnswers: the answer and distinct distractors from 1..maxNum
\* that differ from it, shuffled.  The model takes the smallest distractors
\* and lets the shuffle choose the position of the answer.
RECURSIVE MathFill(_, _, _, _)
MathFill(pos, i, next, answer) ==
    IF i > MathCells THEN <<>>
    ELSE IF i = pos THEN <<answer>> \o MathFill(pos, i + 1, next, answer)
    ELSE IF next = answer THEN MathFill(pos, i, next + 1, answer)
    ELSE <<next>> \o MathFill(pos, i + 1, next + 1, answer)

MathGenerateBubbleAnswers(problem) ==
    { MathFill(pos, 1, 1, problem.answer) : pos \in 1..MathCells }

\* Speech.stop(): the queue is emptied; the utterance in flight reports
\* onStopped, which clears isSpeakingRef when the utterance has callbacks
MathStopSpeech(m) ==
    IF m.speech = <<>> THEN m
    ELSE [m EXCEPT !.speech = <<>>,
                   !.isSpeakingRef = IF Head(m.speech).cb # "none"
                                     THEN FALSE ELSE @]

\* speakText of useSpeech
MathSpeakText(m, utterance) ==
    IF SpeechOff(m.audioSetting) THEN m
    ELSE [MathStopSpeech(m) EXCEPT !.speech = <<utterance>>]

MathSpeakMathProblem(m) ==
    IF ~m.mounted THEN m
    ELSE LET stopped == IF m.isSpeakingRef THEN MathStopSpeech(m) ELSE m
         IN  MathSpeakText([stopped EXCEPT !.isSpeakingRef = TRUE],
                           [text |-> "problem", cb |-> "flag", clo |-> NoClo])

\* speakCorrectAnswer(problem, onComplete): onDone runs onComplete, which is
\* the initializeGame of the closure clo
MathSpeakCorrectAnswer(m, clo) ==
    IF ~m.mounted THEN m
    ELSE LET stopped == IF m.isSpeakingRef THEN MathStopSpeech(m) ELSE m
         IN  MathSpeakText([stopped EXCEPT !.isSpeakingRef = TRUE],
                           [text |-> "correct", cb |-> "next", clo |-> clo])

MathSpeakHint(m) ==
    IF ~m.mounted \/ m.currentProblem = NoProblem THEN m
    ELSE MathSpeakText(m, [text |-> "hint", cb |-> "none", clo |-> NoClo])

MathCleanUp(m) ==
    LET cleared == [m EXCEPT !.hintTimeouts = IF m.timerRef = 0 THEN @
                                               ELSE @ \ {"held"},
                             !.timerRef = 0]
    IN  [MathStopSpeech(cleared) EXCEPT !.isSpeakingRef = FALSE]

\* the body of initializeGame after its isComponentMounted check
MathInitializeGameBody(m, clo, problem, answers) ==
    [MathCleanUp(m) EXCEPT
        !.popStates = AllFalse(MathCells),
        !.currentProblem = problem,
        !.bubbleAnswers = answers,
        !.startDelays = (IF @ = {} THEN {} ELSE {"stale"}) \cup {"current"},
        !.hProgress = 0]

\* initializeGame without its first line
MathInitializeGame_Unguarded(m, clo, problem, answers) ==
    MathInitializeGameBody(m, clo, problem, answers)

\* initializeGame as the closure clo sees it, with the problem and the
\* population it generated; the 300 ms callback it arms is kept in no ref
MathInitializeGame(m, clo, problem, answers) ==
    IF ~m.mounted THEN m
    ELSE MathInitializeGameBody(m, clo, problem, answers)

MathFresh(audio) ==
    [mounted |-> TRUE, appState |-> "active", audioSetting |-> audio,
     difficulty |-> "easy", currentProblem |-> NoProblem,
     bubbleAnswers |-> [i \in 1..MathCells |-> 0],
     popStates |-> AllFalse(MathCells),
     score |-> 0, timerRef |-> 0, isSpeakingRef |-> FALSE,
     hintTimeouts |-> {}, startDelays |-> {}, initDelays |-> {},
     speech |-> <<>>, events |-> {},
     hProgress |-> 0, hLate |-> FALSE]

\* the states initializeGame can lead to: a problem and a population are drawn
MathStartRound(m, clo) ==
    UNION { { MathInitializeGame(m, clo, problem, answers) :
                answers \in MathGenerateBubbleAnswers(problem) } :
            problem \in MathGenerateProblem(clo.diff) }

\* the state after the resources are loaded and initializeGame has run
MathInit ==
    \E audio \in AudioSettings :
        math \in MathStartRound(MathFresh(audio), MathClo(MathFresh(audio)))

\* the 300 ms callback of initializeGame: speak the problem, arm the hint
MathStartDelayBody(m, d) ==
    LET gone == [m EXCEPT !.startDelays = @ \ {d}]
    IN  IF ~m.mounted THEN gone
        ELSE [MathSpeakMathProblem(gone) EXCEPT
                 !.hintTimeouts = (IF @ = {} THEN {} ELSE {"lost"})
                                  \cup {"held"},
                 !.timerRef = 1]

MathStartDelayFires(d) ==
    /\ variant = "math"
    /\ d \in math.startDelays
    /\ d = "current" => "stale" \notin math.startDelays
    /\ math' = MathStartDelayBody(math, d)
    /\ UNCHANGED <<variant, colors, retry, speed, balloon, free, gen, theme, abc>>

\* the 20 s hint callback armed by initializeGame
MathHintBody(m, h) ==
    LET gone == [m EXCEPT !.hintTimeouts = @ \ {h}]
    IN  IF ~m.mounted THEN gone
        ELSE MathSpeakText(gone,
                           [text |-> "hint", cb |-> "none", clo |-> NoClo])

MathHintFires(h) ==
    /\ variant = "math"
    /\ h \in math.hintTimeouts
    /\ math' = MathHintBody(math, h)
    /\ UNCHANGED <<variant, colors, retry, speed, balloon, free, gen, theme, abc>>

\* handleAnswerSelect(index, answer) with the penalty not clamped
MathHandleAnswerSelectBody_NoClamp(m, index) ==
    LET answer  == m.bubbleAnswers[index]
        pressed == [m EXCEPT !.popStates[index] = TRUE]
    IN  IF m.currentProblem = NoProblem \/ ~m.mounted THEN m
        ELSE IF m.popStates[index] THEN m
        ELSE IF answer = m.currentProblem.answer
        THEN MathSpeakCorrectAnswer(
               [pressed EXCEPT !.score = @ + 10, !.hProgress = @ + 1],
               MathClo(m))
        ELSE MathSpeakHint([pressed EXCEPT !.score = @ - 5])

\* handleAnswerSelect(index, answer)
MathHandleAnswerSelectBody(m, index) ==
    LET answer  == m.bubbleAnswers[index]
        pressed == [m EXCEPT !.popStates[index] = TRUE]
    IN  IF m.currentProblem = NoProblem \/ ~m.mounted THEN m
        ELSE IF m.popStates[index] THEN m
        ELSE IF answer = m.currentProblem.answer
        THEN MathSpeakCorrectAnswer(
               [pressed EXCEPT !.score = @ + 10, !.hProgress = @ + 1],
               MathClo(m))
        ELSE MathSpeakHint([pressed EXCEPT !.score = Max(0, @ - 5)])

\* a press on bubble index: PopBubble is rendered with isPopped =
\* popStates[index] and is never disabled
MathPress(m, index) ==
    IF PopBubbleHandlePress(m.popStates[index], FALSE)
    THEN MathHandleAnswerSelectBody(m, index)
    ELSE m

MathHandleAnswerSelect(index) ==
    /\ variant = "math"
    /\ math.mounted /\ math.appState = "active"
    /\ MathPress(math, index).score <= MathMaxScore
    /\ math' = MathPress(math, index)
    /\ UNCHANGED <<variant, colors, retry, speed, balloon, free, gen, theme, abc>>

\* toggleDifficulty: the 100 ms callback calls the initializeGame of the
\* render in which the button was pressed
MathToggleDifficulty ==
    /\ variant = "math"
    /\ math.mounted /\ math.appState = "active"
    /\ math' = [MathCleanUp(math) EXCEPT
                  !.difficulty = IF @ = "easy" THEN "hard" ELSE "easy",
                  !.initDelays = @ \cup {MathClo(math)}]
    /\ UNCHANGED <<variant, colors, retry, speed, balloon, free, gen, theme, abc>>

MathInitDelayFires(clo) ==
    /\ variant = "math"
    /\ clo \in math.initDelays
    /\ math' \in MathStartRound([math EXCEPT !.initDelays = @ \ {clo}], clo)
    /\ UNCHANGED <<variant, colors, retry, speed, balloon, free, gen, theme, abc>>

\* the utterance in flight ends: its onDone is emitted
MathSpeechDone ==
    /\ variant = "math"
    /\ math.speech # <<>>
    /\ math.events = {}
    /\ math' = [math EXCEPT
                  !.speech = Tail(@),
                  !.events = IF Head(math.speech).cb = "none" THEN @
                             ELSE @ \cup {[kind |-> Head(math.speech).cb,
                                           clo |-> Head(math.speech).clo]}]
    /\ UNCHANGED <<variant, colors, retry, speed, balloon, free, gen, theme, abc>>

\* an onDone callback runs: isSpeakingRef is cleared and, for the utterance
\* of speakCorrectAnswer, onComplete starts the next round when mounted
MathOnDone(m, e) ==
    [m EXCEPT !.events = @ \ {e},
              !.isSpeakingRef = FALSE,
              !.hLate = @ \/ (e.kind = "next" /\ ~m.mounted)]

MathDeliverEvent(e) ==
    /\ variant = "math"
    /\ e \in math.events
    /\ IF e.kind = "next"
       THEN math' \in MathStartRound(MathOnDone(math, e), e.clo)
       ELSE math' = MathOnDone(math, e)
    /\ UNCHANGED <<variant, colors, retry, speed, balloon, free, gen, theme, abc>>

\* AppState listener: active -> background
MathBackground ==
    /\ variant = "math"
    /\ math.mounted /\ math.appState = "active"
    /\ math' = [MathCleanUp(math) EXCEPT !.appState = "background"]
    /\ UNCHANGED <<variant, colors, retry, speed, balloon, free, gen, theme, abc>>

\* AppState listener: background -> active
MathForeground ==
    /\ variant = "math"
    /\ math.mounted /\ math.appState = "background"
    /\ math' \in MathStartRound([math EXCEPT !.appState = "active"],
                                MathClo(math))
    /\ UNCHANGED <<variant, colors, retry, speed, balloon, free, gen, theme, abc>>

\* the cleanups of the lifecycle effect and of the loading effect
MathUnmount ==
    /\ variant = "math"
    /\ math.mounted
    /\ math' = [MathCleanUp(math) EXCEPT !.mounted = FALSE]
    /\ UNCHANGED <<variant, colors, retry, speed, balloon, free, gen, theme, abc>>

(***************************************************************************)
(* Properties of the arithmetic round                                      *)
(***************************************************************************)
\* what a round consists of: problem, population, popped flags, score,
\* difficulty, progress, and the timers and narration it has armed
MathRoundState(m) ==
    <<m.currentProblem, m.bubbleAnswers, m.popStates, m.score, m.difficulty,
      m.hProgress, m.timerRef, m.hintTimeouts, m.startDelays, m.initDelays,
      m.speech>>

\* C6: after teardown, the onDone callback of the correct-answer narration
\* starts no round and changes nothing of the round state, whenever it runs.
C6_LateOnDoneHarmless ==
    [][\A e \in math.events :
         (variant = "math" /\ ~math.mounted /\ e.kind = "next"
            /\ MathDeliverEvent(e))
            => MathRoundState(math') = MathRoundState(math)]_vars

C6_Witness ==
    variant = "math" /\ ~math.mounted /\ math.hLate

\* C7: at most one hint timeout is pending at any instant.
C7_OneHandlePerKind ==
    variant = "math" => Cardinality(math.hintTimeouts) <= 1

\* C8: once the correct answer of the round on screen is popped, no hint
\* timeout of that round is left pending.
C8_TimersCancelledAtCompletion ==
    (variant = "math" /\ math.mounted /\ math.hProgress >= 1) =>
       math.hintTimeouts = {}

\* C9: the 300 ms callback of a superseded round changes neither the popped
\* flags, the problem, the population nor the timers and narration of the
\* round on screen.
C9_StaleCallbackNoOp ==
    [][(variant = "math" /\ MathStartDelayFires("stale"))
          => /\ math'.popStates = math.popStates
             /\ math'.currentProblem = math.currentProblem
             /\ math'.bubbleAnswers = math.bubbleAnswers
             /\ math'.timerRef = math.timerRef
             /\ math'.hintTimeouts = math.hintTimeouts
             /\ math'.speech = math.speech]_vars

\* C19: while the app is in the background no hint timer and no
\* start-of-round delay is pending and no narration is being spoken (cleanUp
\* stopped speech on the way to the background, so an utterance there was
\* started in the background).
C19_QuietInBackground ==
    (variant = "math" /\ math.mounted /\ math.appState = "background")
       => /\ math.startDelays = {}
          /\ math.hintTimeouts = {}
          /\ math.speech = <<>>

\* C23: when no utterance is in flight and no completion callback is
\* waiting to be delivered, isSpeakingRef is false.
C23_FlagOnlyWhileSpeaking ==
    (variant = "math" /\ math.speech = <<>> /\ math.events = {})
       => ~math.isSpeakingRef

\* C10: once the correct answer is popped, the next round eventually starts
\* (unless the screen is left or the app goes to the background), under
\* every audio setting.
C10_NextRoundEventually ==
    (variant = "math" /\ math.mounted /\ math.hProgress = 1)
       ~> (math.hProgress = 0 \/ ~math.mounted \/ math.appState # "active")

NextMath ==
    \/ \E d \in {"stale", "current"} : MathStartDelayFires(d)
    \/ \E h \in math.hintTimeouts : MathHintFires(h)
    \/ \E index \in 1..MathCells : MathHandleAnswerSelect(index)
    \/ MathToggleDifficulty
    \/ \E clo \in math.initDelays : MathInitDelayFires(clo)
    \/ MathSpeechDone
    \/ \E e \in math.events : MathDeliverEvent(e)
    \/ MathBackground
    \/ MathForeground
    \/ MathUnmount

(***************************************************************************)
(* part_003 -- the arithmetic round of the "try again" kind: a wrong       *)
(* answer is un-popped after 300 ms, a correct one shows the result.       *)
(*                                                                         *)
(* The mount effect depends on initializeGame, which depends on score,     *)
(* showResult and (through generateProblem) difficulty: whenever a handler *)
(* changes one of them the effect runs again, cleanUp() and then           *)
(* initializeGame() of the new render.  The 3000 ms next-problem timeout   *)
(* of a correct answer is armed in the handler and cleared by that         *)
(* cleanUp() before it can fire.  The narration of this screen and the     *)
(* callbacks that only narrate are not part of the state.                  *)
(* timeouts   : "answer" while the 20 s callback held by timerRef is       *)
(*              pending.                                                   *)
(* reverts    : the bubbles whose 300 ms un-pop callback is pending.       *)
(* initDelays : the pending 100 ms callbacks of toggleDifficulty.          *)
(* hDelivered : per bubble, the presses the handler accepted this round    *)
(*              (counted up to 2).  hProgress as in math.tsx.              *)
(***************************************************************************)
RetryGenerateProblem(diff) == MathGenerateProblem(diff)

RetryGenerateBubbleAnswers(problem) == MathGenerateBubbleAnswers(problem)

RetryCleanUp(r) ==
    [r EXCEPT !.timeouts = IF r.timerRef = 0 THEN @ ELSE @ \ {"answer"},
              !.timerRef = 0]

\* initializeGame: there is no mounted check; after unmount the setters do
\* nothing, the timer is armed all the same
RetryInitializeGame(r, problem, answers) ==
    LET st == IF r.mounted
              THEN [r EXCEPT !.popStates = AllFalse(MathCells),
                             !.currentProblem = problem,
                             !.bubbleAnswers = answers,
                             !.showResult = FALSE,
                             !.hDelivered = [i \in 1..MathCells |-> 0],
                             !.hProgress = 0]
              ELSE r
    IN  [RetryCleanUp(st) EXCEPT !.timeouts = @ \cup {"answer"},
                                 !.timerRef = 1]

RetryFresh ==
    [mounted |-> TRUE, difficulty |-> "easy", currentProblem |-> NoProblem,
     bubbleAnswers |-> [i \in 1..MathCells |-> 0],
     popStates |-> AllFalse(MathCells),
     score |-> 0, showResult |-> FALSE, timerRef |-> 0,
     timeouts |-> {}, reverts |-> {}, initDelays |-> {},
     hDelivered |-> [i \in 1..MathCells |-> 0], hProgress |-> 0]

\* the states one call of initializeGame (closure difficulty diff) leads to
RetryStartRound(r, diff) ==
    UNION { { RetryInitializeGame(r, problem, answers) :
                answers \in RetryGenerateBubbleAnswers(problem) } :
            problem \in RetryGenerateProblem(diff) }

\* the mount effect after a handler took the screen from before to after:
\* it runs again when score, showResult or difficulty changed, and once
\* more when its initializeGame() took showResult back to false
RetryMountEffect(before, after) ==
    IF ~after.mounted THEN {after}
    ELSE IF after.showResult
    THEN UNION { RetryStartRound(RetryCleanUp(x), x.difficulty) :
                   x \in RetryStartRound(RetryCleanUp(after),
                                         after.difficulty) }
    ELSE IF after.score # before.score
            \/ after.difficulty # before.difficulty
    THEN RetryStartRound(RetryCleanUp(after), after.difficulty)
    ELSE {after}

RetryInit == retry \in RetryStartRound(RetryFresh, RetryFresh.difficulty)

\* handleAnswerSelect(index, answer)
RetryHandleAnswerSelectBody(r, index) ==
    LET answer  == r.bubbleAnswers[index]
        pressed == [r EXCEPT !.popStates[index] = TRUE,
                             !.hDelivered[index] = IF @ < 2 THEN @ + 1 ELSE @]
    IN  IF r.currentProblem = NoProblem \/ r.showResult THEN r
        ELSE IF r.popStates[index] THEN r
        ELSE IF answer = r.currentProblem.answer
        THEN [pressed EXCEPT !.score = @ + 10,
                             !.hProgress = @ + 1,
                             !.showResult = TRUE]
        ELSE [pressed EXCEPT !.score = Max(0, @ - 5),
                             !.reverts = @ \cup {index}]

\* a press on bubble index: PopBubble is rendered with isPopped =
\* popStates[index] and is never disabled
RetryPress(r, index) ==
    IF PopBubbleHandlePress(r.popStates[index], FALSE)
    THEN RetryHandleAnswerSelectBody(r, index)
    ELSE r

RetryHandleAnswerSelect(index) ==
    /\ variant = "retry"
    /\ retry.mounted
    /\ RetryPress(retry, index).score <= MathMaxScore
    /\ retry' \in RetryMountEffect(retry, RetryPress(retry, index))
    /\ UNCHANGED <<variant, colors, math, speed, balloon, free, gen, theme, abc>>

\* the 300 ms callback of a wrong answer: the bubble is un-popped
RetryRevertFires(index) ==
    /\ variant = "retry"
    /\ index \in retry.reverts
    /\ retry' = [retry EXCEPT
                   !.reverts = @ \ {index},
                   !.popStates[index] = IF retry.mounted THEN FALSE ELSE @]
    /\ UNCHANGED <<variant, colors, math, speed, balloon, free, gen, theme, abc>>

\* toggleDifficulty: the 100 ms callback calls the initializeGame of the
\* render in which the button was pressed
RetryToggleDifficulty ==
    /\ variant = "retry"
    /\ retry.mounted
    /\ retry' \in RetryMountEffect(retry,
                    [RetryCleanUp(retry) EXCEPT
                        !.difficulty = IF @ = "easy" THEN "hard" ELSE "easy",
                        !.initDelays = @ \cup {[diff |-> retry.difficulty]}])
    /\ UNCHANGED <<variant, colors, math, speed, balloon, free, gen, theme, abc>>

RetryInitDelayFires(clo) ==
    /\ variant = "retry"
    /\ clo \in retry.initDelays
    /\ retry' \in RetryStartRound([retry EXCEPT !.initDelays = @ \ {clo}],
                                  clo.diff)
    /\ UNCHANGED <<variant, colors, math, speed, balloon, free, gen, theme, abc>>

\* the 20 s callback of initializeGame (it only narrates)
RetryAnswerTimeoutFires ==
    /\ variant = "retry"
    /\ "answer" \in retry.timeouts
    /\ retry' = [retry EXCEPT !.timeouts = @ \ {"answer"}]
    /\ UNCHANGED <<variant, colors, math, speed, balloon, free, gen, theme, abc>>

\* the cleanup of the mount effect: the screen is left
RetryUnmount ==
    /\ variant = "retry"
    /\ retry.mounted
    /\ retry' = [RetryCleanUp(retry) EXCEPT !.mounted = FALSE]
    /\ UNCHANGED <<variant, colors, math, speed, balloon, free, gen, theme, abc>>

NextRetry ==
    \/ \E index \in 1..MathCells : RetryHandleAnswerSelect(index)
    \/ \E index \in 1..MathCells : RetryRevertFires(index)
    \/ RetryToggleDifficulty
    \/ \E clo \in retry.initDelays : RetryInitDelayFires(clo)
    \/ RetryAnswerTimeoutFires
    \/ RetryUnmount

(***************************************************************************)
(* speed.tsx -- the timed speed round                                      *)
(*                                                                         *)
(* intervals     : the handles of the live setInterval countdowns.         *)
(* resetTimeouts : the pending setTimeout(initializeBubbles, 300)          *)
(*                 callbacks of resetBubblesIfAllPopped (kept once).       *)
(* The high score kept by endGame is not part of the state.                *)
(***************************************************************************)
SPEED_GAME_DURATION == 30
\* resetBubblesIfAllPopped: bonusPoints
bonusPoints == 5

SpeedFresh ==
    [mounted |-> TRUE, bubbleStates |-> AllFalse(SpeedCells),
     score |-> 0, poppedCount |-> 0,
     timeRemaining |-> SPEED_GAME_DURATION,
     gameActive |-> FALSE, showResults |-> FALSE,
     timerRef |-> 0, intervals |-> {}, resetTimeouts |-> {},
     highScore |-> 0,
     startGameClo |-> [score |-> 0, highScore |-> 0],
     endGameClo |-> [score |-> 0, highScore |-> 0]]

SpeedInit == speed = SpeedFresh

\* startGame is a useCallback on [timeRemaining, initializeBubbles]: the
\* render after a change of timeRemaining builds a new startGame, whose
\* interval callback calls the endGame of that render, a useCallback on
\* [score, highScore, updateHighScore]
SpeedRender(before, after) ==
    IF after.mounted /\ after.timeRemaining # before.timeRemaining
    THEN [after EXCEPT !.startGameClo = [score     |-> after.score,
                                         highScore |-> after.highScore]]
    ELSE after

SpeedInitializeBubbles(sp) ==
    IF ~sp.mounted THEN sp
    ELSE [sp EXCEPT !.bubbleStates = AllFalse(SpeedCells),
                    !.poppedCount = 0]

\* the effect on [poppedCount, gameActive]: resetBubblesIfAllPopped
SpeedResetBubblesIfAllPopped(sp) ==
    IF sp.gameActive /\ sp.poppedCount >= SpeedCells
    THEN [sp EXCEPT !.score = @ + bonusPoints,
                    !.resetTimeouts = @ \cup {"initializeBubbles"}]
    ELSE sp

\* handlePop(index) without the test of gameActive
SpeedHandlePopBody_AlwaysActive(sp, index) ==
    IF sp.bubbleStates[index] THEN sp
    ELSE SpeedResetBubblesIfAllPopped(
           [sp EXCEPT !.bubbleStates[index] = TRUE,
                      !.poppedCount = @ + 1,
                      !.score = @ + 1])

\* handlePop(index)
SpeedHandlePopBody(sp, index) ==
    IF ~sp.gameActive \/ sp.bubbleStates[index] THEN sp
    ELSE SpeedResetBubblesIfAllPopped(
           [sp EXCEPT !.bubbleStates[index] = TRUE,
                      !.poppedCount = @ + 1,
                      !.score = @ + 1])

\* a press on bubble index: PopBubble is rendered with isPopped and
\* disabled both equal to bubbleStates[index]
SpeedPress(sp, index) ==
    IF PopBubbleHandlePress(sp.bubbleStates[index], sp.bubbleStates[index])
    THEN SpeedHandlePopBody(sp, index)
    ELSE sp

SpeedHandlePop(index) ==
    /\ variant = "speed"
    /\ speed.mounted
    /\ SpeedPress(speed, index).score <= SpeedMaxScore
    /\ speed' = SpeedPress(speed, index)
    /\ UNCHANGED <<variant, colors, math, retry, balloon, free, gen, theme, abc>>

\* startGame, the Start Game / Play Again button
SpeedStartGame ==
    /\ variant = "speed"
    /\ speed.mounted /\ ~speed.gameActive
    /\ LET live == speed.intervals \ {speed.timerRef}
           h    == NewHandle(live)
       IN  speed' = SpeedRender(speed,
                       [SpeedInitializeBubbles(speed) EXCEPT
                           !.score = 0,
                           !.timeRemaining = SPEED_GAME_DURATION,
                           !.showResults = FALSE,
                           !.gameActive = TRUE,
                           !.intervals = live \cup {h},
                           !.timerRef = h,
                           !.endGameClo = speed.startGameClo])
    /\ UNCHANGED <<variant, colors, math, retry, balloon, free, gen, theme, abc>>

\* endGame comparing the score and high score of the current render
SpeedEndGame_CurrentScore(sp) ==
    [sp EXCEPT !.gameActive = FALSE, !.showResults = TRUE,
               !.highScore = IF sp.score > sp.highScore THEN sp.score ELSE @]

\* endGame, as the interval calls it: score and highScore are those of the
\* render its startGame was built in
SpeedEndGame(sp) ==
    [sp EXCEPT !.gameActive = FALSE, !.showResults = TRUE,
               !.highScore = IF sp.endGameClo.score > sp.endGameClo.highScore
                             THEN sp.endGameClo.score ELSE @]

\* a callback that ends the game and leaves its interval running
SpeedTickBody_KeepsInterval(sp) ==
    IF sp.timeRemaining <= 1
    THEN [SpeedEndGame(sp) EXCEPT !.timeRemaining = 0]
    ELSE [sp EXCEPT !.timeRemaining = @ - 1]

\* the setInterval callback of startGame
SpeedTickBody(sp) ==
    IF sp.timeRemaining <= 1
    THEN [SpeedEndGame(sp) EXCEPT !.intervals = @ \ {sp.timerRef},
                                  !.timeRemaining = 0]
    ELSE [sp EXCEPT !.timeRemaining = @ - 1]

SpeedTick ==
    /\ variant = "speed"
    /\ \E h \in speed.intervals :
         speed' = IF speed.mounted
                  THEN SpeedRender(speed, SpeedTickBody(speed)) ELSE speed
    /\ UNCHANGED <<variant, colors, math, retry, balloon, free, gen, theme, abc>>

\* the 300 ms callback of resetBubblesIfAllPopped
SpeedResetTimeout ==
    /\ variant = "speed"
    /\ speed.resetTimeouts # {}
    /\ speed' = SpeedInitializeBubbles([speed EXCEPT !.resetTimeouts = {}])
    /\ UNCHANGED <<variant, colors, math, retry, balloon, free, gen, theme, abc>>

\* the cleanup of the mount effect: the screen is left
SpeedUnmount ==
    /\ variant = "speed"
    /\ speed.mounted
    /\ speed' = [speed EXCEPT !.mounted = FALSE,
                              !.intervals = @ \ {speed.timerRef}]
    /\ UNCHANGED <<variant, colors, math, retry, balloon, free, gen, theme, abc>>

NextSpeed ==
    \/ \E index \in 1..SpeedCells : SpeedHandlePop(index)
    \/ SpeedStartGame
    \/ SpeedTick
    \/ SpeedResetTimeout
    \/ SpeedUnmount

(***************************************************************************)
(* balloon.tsx -- the falling shapes round                                 *)
(*                                                                         *)
(* balloons   : the shape of each balloon on screen; a popped balloon is   *)
(*              replaced in the same handler, so none stays popped.        *)
(* initDelays : the pending 100 ms callbacks of toggleDifficulty, each     *)
(*              with the difficulty its startGame closure captured.        *)
(* offScreenInterval : whether the setInterval of the off-screen effect    *)
(*              (gameTimerRef) is live.                                    *)
(* appState   : appState.current of the AppState listener.                 *)
(* offScreenPending : whether offScreenBalloons holds the id of a balloon  *)
(*              on screen (offScreenBalloons.current.size > 0); which      *)
(*              balloons these are is drawn when the interval callback     *)
(*              runs.                                                      *)
(* Positions and the narration are not part of the state: any balloon may  *)
(* have left the screen when its checkOffScreen interval runs.             *)
(***************************************************************************)
\* the values of ShapeType the model draws from (4 in the source)
ShapeType == {"circle", "square"}

\* getActiveBalloonCount: 6, 10 or 14 in the source
getActiveBalloonCount(diff) ==
    CASE diff = "easy"   -> BalloonCells
      [] diff = "medium" -> BalloonCells + 1
      [] OTHER           -> BalloonCells + 2

BalloonFresh ==
    [mounted |-> TRUE, appState |-> "active",
     gameStarted |-> FALSE, difficulty |-> "easy",
     currentTargetShape |-> "none", balloons |-> <<>>, score |-> 0,
     initDelays |-> {}, offScreenInterval |-> FALSE,
     offScreenPending |-> FALSE]

BalloonInit == balloon = BalloonFresh

\* the populations left as they are
BalloonEnsureTarget_Skip(bs, target) == {bs}

\* the off-screen effect after a handler took the screen from before to
\* after: it depends on gameStarted and currentTargetShape, and when it runs
\* it arms the interval if the game has started
BalloonSettle(before, after) ==
    IF after.mounted
       /\ (after.gameStarted # before.gameStarted
             \/ after.currentTargetShape # before.currentTargetShape)
    THEN [after EXCEPT !.offScreenInterval = after.gameStarted]
    ELSE after

\* "ensure at least one balloon is the target shape": the populations left
\* when a random balloon of bs is given the target shape if none has it
BalloonEnsureTarget(bs, target) ==
    IF \E i \in 1..Len(bs) : bs[i] = target THEN {bs}
    ELSE { [bs EXCEPT ![i] = target] : i \in 1..Len(bs) }

\* initializeBalloons of a closure with difficulty diff; the new balloons
\* have new ids, so the ids in offScreenBalloons match none of them
BalloonInitializeBalloons(b, diff) ==
    IF ~b.mounted THEN {b}
    ELSE UNION { { [b EXCEPT !.currentTargetShape = target, !.balloons = bs,
                               !.offScreenPending = FALSE] :
                     bs \in UNION { BalloonEnsureTarget(raw, target) :
                              raw \in [1..getActiveBalloonCount(diff)
                                         -> ShapeType] } } :
                 target \in ShapeType }

\* startGame of a closure with difficulty diff
BalloonStartGameBody(b, diff) ==
    IF ~b.mounted THEN {b}
    ELSE BalloonInitializeBalloons(
           [b EXCEPT !.score = 0, !.gameStarted = TRUE], diff)

BalloonStartGame ==
    /\ variant = "balloon"
    /\ balloon.mounted /\ ~balloon.gameStarted
    /\ \E after \in BalloonStartGameBody(balloon, balloon.difficulty) :
         balloon' = BalloonSettle(balloon, after)
    /\ UNCHANGED <<variant, colors, math, retry, speed, free, gen, theme, abc>>

\* handleBalloonPop(balloon) for the balloon at index
BalloonHandleBalloonPopBody(b, index) ==
    IF ~b.mounted THEN {b}
    ELSE IF b.balloons[index] = b.currentTargetShape
    THEN UNION { UNION { { [b EXCEPT !.score = @ + 10,
                                     !.currentTargetShape = target,
                                     !.balloons = bs] :
                             bs \in BalloonEnsureTarget(
                                      [b.balloons EXCEPT ![index] = shape],
                                      target) } :
                         shape \in ShapeType } :
                 target \in ShapeType }
    ELSE { [b EXCEPT !.balloons[index] = shape] : shape \in ShapeType }

BalloonHandleBalloonPop(index) ==
    /\ variant = "balloon"
    /\ balloon.mounted /\ balloon.gameStarted
    /\ index \in 1..Len(balloon.balloons)
    /\ balloon.balloons[index] = balloon.currentTargetShape =>
          balloon.score + 10 <= BalloonMaxScore
    /\ \E after \in BalloonHandleBalloonPopBody(balloon, index) :
         balloon' = BalloonSettle(balloon, after)
    /\ UNCHANGED <<variant, colors, math, retry, speed, free, gen, theme, abc>>

\* checkOffScreen of BalloonItem: a balloon has floated above the screen
\* unpopped and handleOffScreenBalloon adds its id to offScreenBalloons
BalloonReportOffScreen ==
    /\ variant = "balloon"
    /\ balloon.mounted /\ balloon.gameStarted
    /\ ~balloon.offScreenPending
    /\ balloon' = [balloon EXCEPT !.offScreenPending = TRUE]
    /\ UNCHANGED <<variant, colors, math, retry, speed, free, gen, theme, abc>>

\* the setInterval callback of the off-screen effect: the unpopped balloons
\* at the indices in off have left the screen and are replaced by new ones
\* of the shapes in fresh; then a balloon takes the target shape if none
\* has it
BalloonOffScreenBody(b, off, fresh) ==
    BalloonEnsureTarget(
      [i \in 1..Len(b.balloons) |->
          IF i \in off THEN fresh[i] ELSE b.balloons[i]],
      b.currentTargetShape)

BalloonOffScreenReplace ==
    /\ variant = "balloon"
    /\ balloon.mounted /\ balloon.offScreenInterval
    /\ balloon.offScreenPending
    /\ \E off \in SUBSET (1..Len(balloon.balloons)) \ {{}} :
         \E fresh \in [off -> ShapeType] :
            \E bs \in BalloonOffScreenBody(balloon, off, fresh) :
               balloon' = [balloon EXCEPT !.balloons = bs,
                                          !.offScreenPending = FALSE]
    /\ UNCHANGED <<variant, colors, math, retry, speed, free, gen, theme, abc>>

\* toggleDifficulty: cleanUp clears the interval gameTimerRef points to; the
\* 100 ms callback calls the startGame of the render in which the button
\* was pressed
BalloonToggleDifficulty ==
    /\ variant = "balloon"
    /\ balloon.mounted
    /\ balloon' = [balloon EXCEPT
                     !.difficulty = CASE @ = "easy"   -> "medium"
                                      [] @ = "medium" -> "hard"
                                      [] OTHER        -> "easy",
                     !.initDelays = @ \cup {[diff |-> balloon.difficulty]},
                     !.offScreenInterval = FALSE]
    /\ UNCHANGED <<variant, colors, math, retry, speed, free, gen, theme, abc>>

BalloonInitDelayFires(clo) ==
    /\ variant = "balloon"
    /\ clo \in balloon.initDelays
    /\ \E after \in BalloonStartGameBody(
                        [balloon EXCEPT !.initDelays = @ \ {clo}], clo.diff) :
         balloon' = BalloonSettle(balloon, after)
    /\ UNCHANGED <<variant, colors, math, retry, speed, free, gen, theme, abc>>

\* AppState listener, active -> background: cleanUp clears the interval
\* gameTimerRef points to; the 100 ms callbacks of toggleDifficulty are in
\* no ref
BalloonBackground ==
    /\ variant = "balloon"
    /\ balloon.mounted /\ balloon.appState = "active"
    /\ balloon' = [balloon EXCEPT !.appState = "background",
                                  !.offScreenInterval = FALSE]
    /\ UNCHANGED <<variant, colors, math, retry, speed, free, gen, theme, abc>>

\* AppState listener, background -> active: resumeGame repeats the
\* narration of the target if the game has started; gameStarted and
\* currentTargetShape are as they were, so no effect runs again
BalloonForeground ==
    /\ variant = "balloon"
    /\ balloon.mounted /\ balloon.appState = "background"
    /\ balloon' = BalloonSettle(balloon, [balloon EXCEPT !.appState = "active"])
    /\ UNCHANGED <<variant, colors, math, retry, speed, free, gen, theme, abc>>

\* the cleanup of the lifecycle effect: the screen is left
BalloonUnmount ==
    /\ variant = "balloon"
    /\ balloon.mounted
    /\ balloon' = [balloon EXCEPT !.mounted = FALSE,
                                  !.offScreenInterval = FALSE]
    /\ UNCHANGED <<variant, colors, math, retry, speed, free, gen, theme, abc>>

NextBalloon ==
    \/ BalloonStartGame
    \/ \E index \in 1..(BalloonCells + 2) : BalloonHandleBalloonPop(index)
    \/ BalloonToggleDifficulty
    \/ \E clo \in balloon.initDelays : BalloonInitDelayFires(clo)
    \/ BalloonReportOffScreen
    \/ BalloonOffScreenReplace
    \/ BalloonBackground
    \/ BalloonForeground
    \/ BalloonUnmount

\* C25: the round started by the restart after a difficulty change is
\* generated with the parameters of the difficulty now selected: the
\* difficulty generateProblem and generateBubbleAnswers read in the
\* arithmetic round (that of the closure that runs), the number of falling
\* shapes.
C25_RestartUsesNewDifficulty ==
    [][/\ \A clo \in math.initDelays :
            (variant = "math" /\ math.mounted /\ MathInitDelayFires(clo))
               => clo.diff = math'.difficulty
       /\ \A clo \in balloon.initDelays :
            (variant = "balloon" /\ balloon.mounted /\ BalloonInitDelayFires(clo))
               => Len(balloon'.balloons)
                     = getActiveBalloonCount(balloon'.difficulty)]_vars

\* C26: while the app is in the foreground, balloons reported off-screen
\* are eventually replaced (or the screen is left or the app goes to the
\* background), also after cleanUp has run.
C26_OffScreenReplaced ==
    (variant = "balloon" /\ balloon.mounted
       /\ balloon.appState = "active" /\ balloon.offScreenPending)
       ~> (\/ ~balloon.mounted
           \/ balloon.appState # "active"
           \/ ~balloon.offScreenPending)

\* C20: a return to the foreground while a game is in progress starts a
\* fresh round: every item is unpopped and the timers of the round are armed
\* again (the start-of-round delay of the arithmetic round, the off-screen
\* interval of the falling shapes).
C20_FreshRoundOnForeground ==
    [][/\ (variant = "math" /\ MathForeground)
          => /\ \A i \in 1..MathCells : ~math'.popStates[i]
             /\ math'.startDelays # {}
       /\ (variant = "balloon" /\ balloon.gameStarted /\ BalloonForeground)
          => balloon'.offScreenInterval]_vars

\* C14: once the falling-shapes round has started, after every pop and
\* every off-screen replacement, at least one balloon on screen (none stays
\* popped) has the current target shape.
C14_TargetPresent ==
    (variant = "balloon" /\ balloon.gameStarted) =>
       \E i \in 1..Len(balloon.balloons) :
          balloon.balloons[i] = balloon.currentTargetShape

\* after a target was popped and replaced, exactly one balloon has the
\* target shape
C14_Witness ==
    variant = "balloon" /\ balloon.mounted /\ balloon.gameStarted
       /\ balloon.score >= 10
       /\ Cardinality({i \in 1..Len(balloon.balloons) :
                          balloon.balloons[i] = balloon.currentTargetShape}) = 1

(***************************************************************************)
(* free-pop.tsx, the FreePop component with the shape progression          *)
(*                                                                         *)
(* Time is counted in steps of TickMs.  A timer is the number of steps     *)
(* left until its callback runs (NoTimer when none is pending); the clock  *)
(* does not step while a callback is due.                                  *)
(* inactivity, hint : the timers inactivityTimerRef and hintTimerRef point *)
(*                    to, with the poppedCount their closures captured.    *)
(* announce, nextShape : the pending setTimeout callbacks no ref keeps,    *)
(*                    identical ones kept once.                            *)
(* lastPopAge       : now - lastPopTimeRef.current, in steps.              *)
(* hSincePop        : steps since the last pop (or the mount).             *)
(* hWatchdog        : hSincePop when the inactivity callback last gave the *)
(*                    hint in this round, NoTimer when it has not.         *)
(* hPops            : pops taken since the shape changed (2 for more).     *)
(* The audio setting is "full": speakText of useSpeech speaks.             *)
(***************************************************************************)
NoTimer == 0 - 1

\* the delays of free-pop.tsx
FREE_INACTIVITY_MS == 20000
FREE_HINT_MS == 30000
FREE_ANNOUNCE_MS == 300
FREE_CELEBRATION_MS == 2500

\* steps of the clock a setTimeout of ms milliseconds takes at least
Ticks(ms) == (ms + TickMs - 1) \div TickMs

\* the shapes of SHAPE_PROGRESSION the model cycles through (4 in the source)
SHAPE_PROGRESSION == <<"circle", "square">>

\* Speech.stop()
FreeStopSpeech(f) ==
    IF f.speech = <<>> THEN f
    ELSE [f EXCEPT !.speech = <<>>,
                   !.isSpeakingRef = IF Head(f.speech).cb THEN FALSE ELSE @]

\* speakText of useSpeech
FreeSpeakText(f, text, cb) ==
    [FreeStopSpeech(f) EXCEPT !.speech = <<[text |-> text, cb |-> cb]>>]

\* cleanUp
FreeCleanUp(f) ==
    [(IF f.isSpeakingRef
      THEN [FreeStopSpeech(f) EXCEPT !.isSpeakingRef = FALSE] ELSE f)
     EXCEPT !.hint = NoTimer, !.hintCount = 0,
            !.inactivity = NoTimer, !.inactivityCount = 0]

\* announceCurrentShape(isFirstTime)
FreeAnnounceCurrentShape(f, first) ==
    LET stopped == IF f.isSpeakingRef THEN FreeStopSpeech(f) ELSE f
    IN  FreeSpeakText([stopped EXCEPT !.isSpeakingRef = TRUE],
                      IF first THEN "started" ELSE "newShape", TRUE)

\* giveHint
FreeGiveHint(f) ==
    LET stopped == IF f.isSpeakingRef THEN FreeStopSpeech(f) ELSE f
    IN  FreeSpeakText([stopped EXCEPT !.isSpeakingRef = TRUE], "hint", TRUE)

\* resetInactivityTimer of the render that saw poppedCount = seen
FreeResetInactivityTimer(f, seen) ==
    [f EXCEPT !.inactivity = Ticks(FREE_INACTIVITY_MS),
              !.inactivityCount = seen]

\* the effect that initialises the bubbles, as run after the render of f
FreeInitEffect(f) ==
    LET reset == [f EXCEPT !.bubbleStates = AllFalse(f.total),
                           !.poppedCount = 0,
                           !.hWatchdog = NoTimer]
        armed == [FreeCleanUp(reset) EXCEPT
                     !.announce = @ \cup {[left  |-> Ticks(FREE_ANNOUNCE_MS),
                                           first |-> f.completedCount = 0]}]
    IN  [FreeResetInactivityTimer(armed, f.poppedCount) EXCEPT
            !.hint = Ticks(FREE_HINT_MS),
            !.hintCount = f.poppedCount]

\* the renders and effects after a handler took the screen from before to
\* after: the effect depends on currentShape, cleanUp, resetInactivityTimer
\* and announceCurrentShape, and resetInactivityTimer is a new function
\* whenever poppedCount changed
FreeSettle(before, after) ==
    IF ~after.mounted THEN after
    ELSE IF after.poppedCount # before.poppedCount
            \/ after.currentShapeIndex # before.currentShapeIndex
    THEN LET once == FreeInitEffect(after)
         IN  IF once.poppedCount # after.poppedCount
             THEN FreeInitEffect(once) ELSE once
    ELSE after

FreeFresh ==
    [mounted |-> TRUE, total |-> 1, currentShapeIndex |-> 1,
     bubbleStates |-> AllFalse(1), poppedCount |-> 0, completedCount |-> 0,
     showCelebration |-> FALSE,
     inactivity |-> NoTimer, inactivityCount |-> 0,
     hint |-> NoTimer, hintCount |-> 0,
     announce |-> {}, nextShape |-> {},
     speech |-> <<>>, isSpeakingRef |-> FALSE,
     lastPopAge |-> 0, hSincePop |-> 0, hWatchdog |-> NoTimer, hPops |-> 0]

\* the state after the first render and its effects, for a grid of 1 to
\* FreeCells bubbles
FreeInit ==
    \E n \in 1..FreeCells :
        free = FreeInitEffect([FreeFresh EXCEPT !.total = n,
                                                !.bubbleStates = AllFalse(n)])

\* handlePop(index)
FreeHandlePopBody(f, index) ==
    LET timed  == FreeResetInactivityTimer(
                    [f EXCEPT !.lastPopAge = 0, !.hSincePop = 0],
                    f.poppedCount)
        popped == [timed EXCEPT !.bubbleStates[index] = TRUE,
                                !.poppedCount = @ + 1,
                                !.hPops = IF @ < 2 THEN @ + 1 ELSE @]
    IN  IF f.bubbleStates[index] THEN f
        ELSE IF f.poppedCount + 1 >= f.total
        THEN [FreeSpeakText(FreeCleanUp(popped), "great", FALSE) EXCEPT
                 !.showCelebration = TRUE,
                 !.nextShape = @ \cup {[left |-> Ticks(FREE_CELEBRATION_MS),
                                        idx  |-> f.currentShapeIndex]}]
        ELSE popped

\* a press that marks the bubble popped and touches neither the time of
\* the last pop nor a timer
FreePress_NoRearm(f, index) ==
    IF f.bubbleStates[index] THEN f
    ELSE [f EXCEPT !.bubbleStates[index] = TRUE,
                   !.poppedCount = @ + 1,
                   !.hSincePop = 0,
                   !.hPops = IF @ < 2 THEN @ + 1 ELSE @]

\* a press on bubble index: PopBubble is rendered with isPopped =
\* bubbleStates[index] and is never disabled; the renders and effects that
\* follow handlePop are part of the step
FreePress(f, index) ==
    IF PopBubbleHandlePress(f.bubbleStates[index], FALSE)
    THEN FreeSettle(f, FreeHandlePopBody(f, index))
    ELSE f

FreeHandlePop(index) ==
    /\ variant = "free"
    /\ free.mounted
    /\ index \in 1..free.total
    /\ free.poppedCount + 1 >= free.total =>
          free.completedCount + Cardinality(free.nextShape) < FreeMaxCompleted
    /\ free' = FreePress(free, index)
    /\ UNCHANGED <<variant, colors, math, retry, speed, balloon, gen, theme, abc>>

\* the clock steps when no callback is due
FreeTick ==
    LET AgeCap == Ticks(FREE_INACTIVITY_MS) + 1
        Step(t) == IF t = NoTimer THEN NoTimer ELSE t - 1
        Older(a) == IF a < AgeCap THEN a + 1 ELSE a
    IN  /\ variant = "free"
        /\ free.inactivity # 0 /\ free.hint # 0
        /\ \A a \in free.announce \cup free.nextShape : a.left # 0
        /\ free' = [free EXCEPT
                      !.inactivity = Step(@), !.hint = Step(@),
                      !.announce = {[a EXCEPT !.left = @ - 1] : a \in @},
                      !.nextShape = {[n EXCEPT !.left = @ - 1] : n \in @},
                      !.lastPopAge = Older(@), !.hSincePop = Older(@)]
        /\ free' # free
        /\ UNCHANGED <<variant, colors, math, retry, speed, balloon, gen, theme, abc>>

\* the callback of the inactivity timer; it runs at its time or a little
\* later (jitter, in milliseconds)
FreeInactivityBody(f, jitter) ==
    LET fired == [f EXCEPT !.inactivity = NoTimer, !.inactivityCount = 0]
    IN  IF f.lastPopAge * TickMs + jitter > FREE_INACTIVITY_MS
           /\ f.inactivityCount < f.total
        THEN [FreeGiveHint(fired) EXCEPT !.hWatchdog = f.hSincePop]
        ELSE fired

FreeInactivityFires ==
    /\ variant = "free"
    /\ free.inactivity = 0
    /\ \E jitter \in {0, 1} : free' = FreeInactivityBody(free, jitter)
    /\ UNCHANGED <<variant, colors, math, retry, speed, balloon, gen, theme, abc>>

\* C32: when the callback of the inactivity timer gives its hint (no pop
\* within the window, round incomplete), the inactivity timer is armed again.
C32_WatchdogRearms ==
    [][(/\ variant = "free" /\ free.mounted /\ free.inactivity = 0
        /\ free.inactivityCount < free.total
        /\ \E jitter \in {0, 1} :
              /\ free.lastPopAge * TickMs + jitter > FREE_INACTIVITY_MS
              /\ free' = FreeInactivityBody(free, jitter))
         => free'.inactivity # NoTimer]_vars

\* the callback of the hint timer of the effect
FreeHintFires ==
    /\ variant = "free"
    /\ free.hint = 0
    /\ LET fired == [free EXCEPT !.hint = NoTimer, !.hintCount = 0]
       IN  free' = IF 2 * free.hintCount < free.total
                   THEN FreeGiveHint(fired) ELSE fired
    /\ UNCHANGED <<variant, colors, math, retry, speed, balloon, gen, theme, abc>>

\* the setTimeout(() => announceCurrentShape(...), 300) of the effect
FreeAnnounceFires(a) ==
    /\ variant = "free"
    /\ a \in free.announce /\ a.left = 0
    /\ free' = FreeAnnounceCurrentShape(
                  [free EXCEPT !.announce = @ \ {a}], a.first)
    /\ UNCHANGED <<variant, colors, math, retry, speed, balloon, gen, theme, abc>>

\* the setTimeout of handlePop that moves to the next shape; the useState
\* setters have no effect once the component is unmounted
FreeNextShapeBody(f, n) ==
    LET gone == [f EXCEPT !.nextShape = @ \ {n}]
    IN  IF ~f.mounted THEN gone
        ELSE [gone EXCEPT
                 !.currentShapeIndex = (n.idx % Len(SHAPE_PROGRESSION)) + 1,
                 !.completedCount = @ + 1,
                 !.showCelebration = FALSE,
                 !.hPops = 0]

FreeNextShapeFires(n) ==
    /\ variant = "free"
    /\ n \in free.nextShape /\ n.left = 0
    /\ free' = FreeSettle(free, FreeNextShapeBody(free, n))
    /\ UNCHANGED <<variant, colors, math, retry, speed, balloon, gen, theme, abc>>

\* the utterance in flight finishes: onDone
FreeSpeechDone ==
    /\ variant = "free"
    /\ free.speech # <<>>
    /\ free' = [free EXCEPT !.speech = Tail(@),
                            !.isSpeakingRef = IF Head(free.speech).cb
                                              THEN FALSE ELSE @]
    /\ UNCHANGED <<variant, colors, math, retry, speed, balloon, gen, theme, abc>>

\* the cleanup of the effect that loads the sounds: cleanUp
FreeUnmount ==
    /\ variant = "free"
    /\ free.mounted
    /\ free' = [FreeCleanUp(free) EXCEPT !.mounted = FALSE]
    /\ UNCHANGED <<variant, colors, math, retry, speed, balloon, gen, theme, abc>>

\* C33: the hint timer is armed only by the step that starts a round, and
\* its callback gives the hint only when fewer than half of the bubbles are
\* popped at that moment.
C33_HintTimerOncePerRound ==
    [][/\ (variant = "free" /\ free.mounted
             /\ free.hint # Ticks(FREE_HINT_MS)
             /\ free'.hint = Ticks(FREE_HINT_MS))
            => \E n \in free.nextShape : FreeNextShapeFires(n)
       /\ (variant = "free" /\ free.mounted /\ FreeHintFires
             /\ 2 * free.hintCount < free.total)
            => 2 * free.poppedCount < free.total]_vars

NextFree ==
    \/ \E index \in 1..FreeCells : FreeHandlePop(index)
    \/ FreeTick
    \/ FreeInactivityFires
    \/ FreeHintFires
    \/ \E a \in free.announce : FreeAnnounceFires(a)
    \/ \E n \in free.nextShape : FreeNextShapeFires(n)
    \/ FreeSpeechDone
    \/ FreeUnmount

(***************************************************************************)
(* Properties of the free-pop round                                        *)
(***************************************************************************)
\* C11: within one round a popped flag only goes from false to true: a
\* step that does not start the next round leaves every popped bubble
\* popped, and a pop that does not complete the round leaves its bubble
\* popped and the popped count one higher.
C11_PoppedMonotonic ==
    [][/\ (variant = "colors" /\ ~ColorsNextRoundTimeout /\ ~ColorsPlayAgain)
             => \A i \in 1..ColorsCells :
                   colors.popped[i] => colors'.popped[i]
       /\ (variant = "free" /\ \A n \in free.nextShape : ~FreeNextShapeFires(n))
             => \A i \in 1..free.total :
                   free.bubbleStates[i] => free'.bubbleStates[i]
       /\ \A i \in 1..FreeCells :
             (variant = "free" /\ FreeHandlePop(i)
                /\ ~free.bubbleStates[i]
                /\ free.poppedCount + 1 < free.total)
                => /\ free'.bubbleStates[i]
                   /\ free'.poppedCount = free.poppedCount + 1
      ]_vars

\* C22: when the player keeps popping, the first round of free-pop is
\* completed and the next round starts with the next shape of the
\* progression (unless the screen is left).
C22_RoundCompletes ==
    (variant = "free" /\ free.mounted /\ free.completedCount = 0)
       ~> (\/ ~free.mounted
           \/ (free.completedCount = 1 /\ free.currentShapeIndex = 2))

\* C16: the inactivity callback gives the hint only when at least the
\* watchdog window has passed since the last pop (or since the screen was
\* mounted): with pops closer together than the window it never does.
C16_WatchdogSilent ==
    variant = "free" =>
       \/ free.hWatchdog = NoTimer
       \/ free.hWatchdog >= Ticks(FREE_INACTIVITY_MS)

\* two pops, the second one step ago: the watchdog was re-armed, has one
\* step left and has not spoken
C16_Witness ==
    variant = "free" /\ free.mounted /\ free.total = 2 /\ free.hPops = 2
       /\ free.hSincePop = 1 /\ free.inactivity = 1
       /\ free.hWatchdog = NoTimer

(***************************************************************************)
(* free-pop.tsx, the FreePop component with the shape themes (l.1-400).    *)
(* It calls expo-speech directly: Speech.speak adds an utterance to the    *)
(* queue of the speech module, Speech.stop empties the queue.  Timers and  *)
(* the clock are as in the other FreePop; nextTheme holds the pending      *)
(* setTimeout callbacks of handlePop.                                      *)
(***************************************************************************)
THEME_INACTIVITY_MS == 10000
THEME_HINT_MS == 15000
THEME_CELEBRATION_MS == 2000

\* the keys of SHAPE_THEMES the model cycles through (6 in the source)
SHAPE_THEMES == <<"circle", "square">>

\* giveHint: Speech.speak(message)
ThemeGiveHint(t) == [t EXCEPT !.speech = Append(@, "hint")]

\* resetInactivityTimer of the render that saw poppedCount = seen
ThemeResetInactivityTimer(t, seen) ==
    [t EXCEPT !.inactivity = Ticks(THEME_INACTIVITY_MS),
              !.inactivityCount = seen]

\* the effect that initialises the bubbles, as run after the render of t:
\* Speech.stop(), announceCurrentTheme, resetInactivityTimer, hint timer
ThemeInitEffect(t) ==
    LET reset == [t EXCEPT !.bubbleStates = AllFalse(t.total),
                           !.poppedCount = 0,
                           !.speech = <<IF t.completedCount = 0
                                        THEN "started" ELSE "newShape">>]
    IN  [ThemeResetInactivityTimer(reset, t.poppedCount) EXCEPT
            !.hint = Ticks(THEME_HINT_MS),
            !.hintCount = t.poppedCount]

\* the renders and effects after a handler took the screen from before to
\* after: the effect depends on currentTheme, completedCount, poppedCount
\* and on callbacks that depend on them
ThemeSettle(before, after) ==
    IF ~after.mounted THEN after
    ELSE IF after.poppedCount # before.poppedCount
            \/ after.currentTheme # before.currentTheme
            \/ after.completedCount # before.completedCount
    THEN LET once == ThemeInitEffect(after)
         IN  IF once.poppedCount # after.poppedCount
             THEN ThemeInitEffect(once) ELSE once
    ELSE after

ThemeFresh ==
    [mounted |-> TRUE, total |-> 1, currentTheme |-> 1,
     bubbleStates |-> AllFalse(1), poppedCount |-> 0, completedCount |-> 0,
     showCelebration |-> FALSE,
     inactivity |-> NoTimer, inactivityCount |-> 0,
     hint |-> NoTimer, hintCount |-> 0, nextTheme |-> {},
     speech |-> <<>>, lastPopAge |-> 0]

ThemeInit ==
    \E n \in 1..FreeCells :
        theme = ThemeInitEffect([ThemeFresh EXCEPT
                                    !.total = n, !.bubbleStates = AllFalse(n)])

\* handlePop(index)
ThemeHandlePopBody(t, index) ==
    LET timed  == ThemeResetInactivityTimer([t EXCEPT !.lastPopAge = 0],
                                            t.poppedCount)
        popped == [timed EXCEPT !.bubbleStates[index] = TRUE,
                                !.poppedCount = @ + 1]
    IN  IF t.bubbleStates[index] THEN t
        ELSE IF t.poppedCount + 1 >= t.total
        THEN [popped EXCEPT
                 !.speech = <<"great">>,
                 !.hint = NoTimer, !.hintCount = 0,
                 !.inactivity = NoTimer, !.inactivityCount = 0,
                 !.showCelebration = TRUE,
                 !.nextTheme = @ \cup {[left  |-> Ticks(THEME_CELEBRATION_MS),
                                        theme |-> t.currentTheme]}]
        ELSE popped

ThemeHandlePop(index) ==
    /\ variant = "theme"
    /\ theme.mounted
    /\ index \in 1..theme.total
    /\ theme.poppedCount + 1 >= theme.total =>
          theme.completedCount + Cardinality(theme.nextTheme)
             < FreeMaxCompleted
    /\ theme' = IF PopBubbleHandlePress(theme.bubbleStates[index], FALSE)
                THEN ThemeSettle(theme, ThemeHandlePopBody(theme, index))
                ELSE theme
    /\ UNCHANGED <<variant, colors, math, retry, speed, balloon, free, gen, abc>>

\* the clock steps when no callback is due
ThemeTick ==
    LET AgeCap == Ticks(THEME_INACTIVITY_MS) + 1
        Step(x) == IF x = NoTimer THEN NoTimer ELSE x - 1
    IN  /\ variant = "theme"
        /\ theme.inactivity # 0 /\ theme.hint # 0
        /\ \A n \in theme.nextTheme : n.left # 0
        /\ theme' = [theme EXCEPT
                       !.inactivity = Step(@), !.hint = Step(@),
                       !.nextTheme = {[n EXCEPT !.left = @ - 1] : n \in @},
                       !.lastPopAge = IF @ < AgeCap THEN @ + 1 ELSE @]
        /\ theme' # theme
        /\ UNCHANGED <<variant, colors, math, retry, speed, balloon, free, gen, abc>>

\* the callback of the inactivity timer: the hint, and the timer again
ThemeInactivityFires ==
    /\ variant = "theme"
    /\ theme.inactivity = 0
    /\ Len(theme.speech) < SpeechMaxQueue
    /\ \E jitter \in {0, 1} :
         theme' = IF theme.lastPopAge * TickMs + jitter > THEME_INACTIVITY_MS
                     /\ theme.inactivityCount < theme.total
                  THEN ThemeResetInactivityTimer(ThemeGiveHint(theme),
                                                 theme.inactivityCount)
                  ELSE [theme EXCEPT !.inactivity = NoTimer,
                                     !.inactivityCount = 0]
    /\ UNCHANGED <<variant, colors, math, retry, speed, balloon, free, gen, abc>>

\* the callback of the hint timer of the effect
ThemeHintFires ==
    /\ variant = "theme"
    /\ theme.hint = 0
    /\ Len(theme.speech) < SpeechMaxQueue
    /\ LET fired == [theme EXCEPT !.hint = NoTimer, !.hintCount = 0]
       IN  theme' = IF 2 * theme.hintCount < theme.total
                    THEN ThemeGiveHint(fired) ELSE fired
    /\ UNCHANGED <<variant, colors, math, retry, speed, balloon, free, gen, abc>>

\* the setTimeout of handlePop that moves to the next theme
ThemeNextThemeFires(n) ==
    /\ variant = "theme"
    /\ n \in theme.nextTheme /\ n.left = 0
    /\ LET gone == [theme EXCEPT !.nextTheme = @ \ {n}]
       IN  theme' = IF ~theme.mounted THEN gone
                    ELSE ThemeSettle(theme,
                           [gone EXCEPT
                              !.currentTheme = (n.theme % Len(SHAPE_THEMES)) + 1,
                              !.completedCount = @ + 1,
                              !.showCelebration = FALSE])
    /\ UNCHANGED <<variant, colors, math, retry, speed, balloon, free, gen, abc>>

\* the utterance in flight finishes; the next one of the queue starts
ThemeSpeechDone ==
    /\ variant = "theme"
    /\ theme.speech # <<>>
    /\ theme' = [theme EXCEPT !.speech = Tail(@)]
    /\ UNCHANGED <<variant, colors, math, retry, speed, balloon, free, gen, abc>>

\* the cleanup of the effect that loads the sounds
ThemeUnmount ==
    /\ variant = "theme"
    /\ theme.mounted
    /\ theme' = [theme EXCEPT !.mounted = FALSE, !.speech = <<>>,
                              !.hint = NoTimer, !.hintCount = 0,
                              !.inactivity = NoTimer, !.inactivityCount = 0]
    /\ UNCHANGED <<variant, colors, math, retry, speed, balloon, free, gen, abc>>

NextTheme ==
    \/ \E index \in 1..FreeCells : ThemeHandlePop(index)
    \/ ThemeTick
    \/ ThemeInactivityFires
    \/ ThemeHintFires
    \/ \E n \in theme.nextTheme : ThemeNextThemeFires(n)
    \/ ThemeSpeechDone
    \/ ThemeUnmount

\* C17: at most one utterance is in flight or queued at any instant, on
\* every screen.
C17_OneUtterance ==
    /\ variant = "colors" => Len(colors.speech) <= 1
    /\ variant = "math"   => Len(math.speech) <= 1
    /\ variant = "free"   => Len(free.speech) <= 1
    /\ variant = "theme"  => Len(theme.speech) <= 1

\* C18: while the audio setting is noSpeech or mute no step starts a
\* narration: the utterance in flight stays as it is or speech is stopped.
C18_SilentWhenSpeechOff ==
    [][/\ (variant = "colors"
            /\ (colors.audioSetting = "noSpeech" \/ colors.audioSetting = "mute"))
          => (colors'.speech = colors.speech \/ colors'.speech = <<>>)
       /\ (variant = "math"
            /\ (math.audioSetting = "noSpeech" \/ math.audioSetting = "mute"))
          => (math'.speech = math.speech \/ math'.speech = <<>>)]_vars

C40_HighScoreIsMax ==
    [][/\ (variant = "speed" /\ speed.mounted /\ speed.gameActive
             /\ SpeedTick /\ ~speed'.gameActive)
            => speed'.highScore = Max(speed.highScore, speed.score)
       /\ variant = "speed" => speed'.highScore >= speed.highScore]_vars

\* C39: on the two timed screens the remaining time stays within 0..30; a
\* tick of the open screen lowers it by exactly 1 while it is above 0; the
\* tick that takes it to 0 cancels the countdown, so that at 0 no countdown
\* is pending; and a countdown is armed again only by the start of a new
\* round or session.
C39_CountdownBounded ==
    /\ [](/\ (variant = "colors")
              => /\ colors.timeRemaining \in 0..30
                 /\ ((colors.mounted /\ colors.timeRemaining = 0)
                       => colors.intervals = {})
          /\ (variant = "speed")
              => /\ speed.timeRemaining \in 0..30
                 /\ ((speed.mounted /\ speed.timeRemaining = 0)
                       => speed.intervals = {}))
    /\ [][/\ (variant = "colors" /\ colors.mounted /\ ColorsTick
                /\ colors.timeRemaining > 0)
               => /\ colors'.timeRemaining = colors.timeRemaining - 1
                  /\ (colors'.timeRemaining = 0 => colors'.intervals = {})
          /\ (variant = "speed" /\ speed.mounted /\ SpeedTick
                /\ speed.timeRemaining > 0)
               => /\ speed'.timeRemaining = speed.timeRemaining - 1
                  /\ (speed'.timeRemaining = 0 => speed'.intervals = {})
          /\ (variant = "colors" /\ colors.intervals = {}
                /\ colors'.intervals # {})
               => (ColorsNextRoundTimeout \/ ColorsPlayAgain)
          /\ (variant = "speed" /\ speed.intervals = {}
                /\ speed'.intervals # {})
               => SpeedStartGame]_vars

\* a speed session whose countdown ran down to 0
C39_Witness ==
    /\ variant = "speed" /\ speed.mounted
    /\ speed.timeRemaining = 0 /\ speed.showResults
    /\ speed.intervals = {}

GenKinds == {"colors", "letters", "numbers"}

\* the letters and numbers the model draws from (26 and 10 in the source)
ALPHABET == {"A", "B"}
NUMBERS == {"1", "2"}

GenItems(kind) ==
    IF kind = "colors" THEN LEARNING_COLORS
    ELSE IF kind = "letters" THEN ALPHABET ELSE NUMBERS

\* TOTAL_BUBBLES = GRID_SIZE * GRID_SIZE, GRID_SIZE = 4 in both screens
GenTotalBubbles(kind) == 4 * 4

\* a target count of 5 in every screen
GenTargetCount_Five(kind) == 5

\* targetColorCount = 8 in colors.tsx, targetCount = 5 in AbcGame
GenTargetCount(kind) == IF kind = "colors" THEN 8 ELSE 5

\* the second loop drawing from every item, the target included
GenPushBody_NoFilter(g) ==
    IF Len(g.items) < GenTargetCount(g.kind)
    THEN {[g EXCEPT !.items = Append(@, g.target)]}
    ELSE IF Len(g.items) < GenTotalBubbles(g.kind)
    THEN {[g EXCEPT !.items = Append(@, o)] : o \in GenItems(g.kind)}
    ELSE {[g EXCEPT !.phase = "sort"]}

\* one iteration of the two for loops: the target targetCount times, then
\* a random item of those that differ from the target for every remaining
\* spot
GenPushBody(g) ==
    IF Len(g.items) < GenTargetCount(g.kind)
    THEN {[g EXCEPT !.items = Append(@, g.target)]}
    ELSE IF Len(g.items) < GenTotalBubbles(g.kind)
    THEN {[g EXCEPT !.items = Append(@, o)] :
             o \in {c \in GenItems(g.kind) : c # g.target}}
    ELSE {[g EXCEPT !.phase = "sort"]}

GenFresh ==
    [kind |-> "colors", target |-> "Red", items |-> <<>>, phase |-> "push",
     swaps |-> 0]

\* initializeGame is entered with a target chosen
GenInit ==
    \E kind \in GenKinds : \E target \in GenItems(kind) :
        gen = [GenFresh EXCEPT !.kind = kind, !.target = target]

GenPush ==
    /\ variant = "gen"
    /\ gen.phase = "push"
    /\ gen' \in GenPushBody(gen)
    /\ UNCHANGED <<variant, colors, math, retry, speed, balloon, free, theme, abc>>

GenSortSwap ==
    /\ variant = "gen"
    /\ gen.phase = "sort"
    /\ gen.swaps < GenMaxSwaps
    /\ \E i \in 1..(Len(gen.items) - 1) :
         /\ gen.items[i] # gen.items[i + 1]
         /\ gen' = [gen EXCEPT !.items[i] = gen.items[i + 1],
                               !.items[i + 1] = gen.items[i],
                               !.swaps = @ + 1]
    /\ UNCHANGED <<variant, colors, math, retry, speed, balloon, free, theme, abc>>

\* setBubbleColors(shuffled) / setBubbleContents(shuffled)
GenSet ==
    /\ variant = "gen"
    /\ gen.phase = "sort"
    /\ gen' = [gen EXCEPT !.phase = "set"]
    /\ UNCHANGED <<variant, colors, math, retry, speed, balloon, free, theme, abc>>

NextGen == GenPush \/ GenSortSwap \/ GenSet

GenCount(g, item) == Cardinality({i \in 1..Len(g.items) : g.items[i] = item})

\* C12: right after the population of a round is generated it has exactly
\* TOTAL_BUBBLES items, exactly the target count of the screen (8 colours,
\* 5 letters or numbers) of them equal to the target and every other one
\* different from it.
C12_PopulationCounts ==
    (variant = "gen" /\ gen.phase = "set") =>
       /\ Len(gen.items) = GenTotalBubbles(gen.kind)
       /\ GenCount(gen, gen.target) =
             (IF gen.kind = "colors" THEN 8 ELSE 5)
       /\ \A i \in 1..Len(gen.items) :
             \/ gen.items[i] = gen.target
             \/ gen.items[i] \in GenItems(gen.kind) \ {gen.target}

\* a letters population that the sort has reordered
C12_Witness ==
    variant = "gen" /\ gen.phase = "set" /\ gen.kind = "letters"
       /\ gen.swaps > 0 /\ gen.items[6] = gen.target

\* C13 as stated: a colour population has 25 bubbles, 8 of the target
\* colour and 17 of other colours.
C13_Grid25 ==
    (variant = "gen" /\ gen.phase = "set" /\ gen.kind = "colors") =>
       /\ Len(gen.items) = 25
       /\ GenCount(gen, gen.target) = 8
       /\ Len(gen.items) - GenCount(gen, gen.target) = 17

\* C13 amended: a colour population has 16 bubbles, 8 of the target colour
\* and 8 of other colours.
C13_Grid16 ==
    (variant = "gen" /\ gen.phase = "set" /\ gen.kind = "colors") =>
       /\ Len(gen.items) = 16
       /\ GenCount(gen, gen.target) = 8
       /\ Cardinality({i \in 1..Len(gen.items) :
                          gen.items[i] # gen.target}) = 8

\* a colour population is generated and set
C13_Witness ==
    variant = "gen" /\ gen.phase = "set" /\ gen.kind = "colors"
       /\ gen.swaps > 0 /\ gen.items[9] = gen.target

(***************************************************************************)
(* generateProblem of math.tsx and of part_003 (the same statements), as   *)
(* a function of the difficulty and of the three values Math.random()      *)
(* returns.  A value of Math.random() is r / RandomSteps for r in          *)
(* 0..RandomSteps-1; gen holds the difficulty and then the problem.        *)
(***************************************************************************)
\* Math.floor(Math.random() * n) + 1
RandomUpTo(r, n) == (r * n) \div RandomSteps + 1

\* generateProblem whose subtraction draws num2 from 1..maxNum
GenerateProblem_Unordered(diff, r0, r1, r2) ==
    LET maxNum == MathMaxNum(diff)
        num1   == RandomUpTo(r1, maxNum)
    IN  IF 2 * r0 > RandomSteps
        THEN LET num2 == RandomUpTo(r2, maxNum)
             IN  [num1 |-> num1, num2 |-> num2, type |-> "addition",
                  answer |-> num1 + num2]
        ELSE LET num2 == RandomUpTo(r2, maxNum)
             IN  [num1 |-> num1, num2 |-> num2, type |-> "subtraction",
                  answer |-> num1 - num2]

\* generateProblem
GenerateProblem(diff, r0, r1, r2) ==
    LET maxNum == MathMaxNum(diff)
        num1   == RandomUpTo(r1, maxNum)
    IN  IF 2 * r0 > RandomSteps
        THEN LET num2 == RandomUpTo(r2, maxNum)
             IN  [num1 |-> num1, num2 |-> num2, type |-> "addition",
                  answer |-> num1 + num2]
        ELSE LET num2 == RandomUpTo(r2, num1)
             IN  [num1 |-> num1, num2 |-> num2, type |-> "subtraction",
                  answer |-> num1 - num2]

ProblemInit ==
    \E diff \in {"easy", "hard"} :
        gen = [kind |-> "problem", difficulty |-> diff, phase |-> "draw",
               problem |-> NoProblem]

ProblemGenerate ==
    /\ variant = "problem"
    /\ gen.phase = "draw"
    /\ \E r0, r1, r2 \in 0..(RandomSteps - 1) :
         gen' = [gen EXCEPT
                   !.problem = GenerateProblem(gen.difficulty, r0, r1, r2),
                   !.phase = "set"]
    /\ UNCHANGED <<variant, colors, math, retry, speed, balloon, free, theme, abc>>

C15_ProblemArithmetic ==
    (variant = "problem" /\ gen.phase = "set") =>
       LET p == gen.problem
       IN  /\ p.type = "subtraction" =>
                p.num1 >= p.num2 /\ p.answer = p.num1 - p.num2 /\ p.answer >= 0
           /\ p.type = "addition" => p.answer = p.num1 + p.num2

\* a hard subtraction of two equal operands
C15_Witness ==
    variant = "problem" /\ gen.phase = "set"
       /\ gen.difficulty = "hard" /\ gen.problem.type = "subtraction"
       /\ gen.problem.num1 = 10 /\ gen.problem.answer = 0

(***************************************************************************)
(* generateBubbleAnswers of the arithmetic round, one iteration of its     *)
(* while loop per step.  version is "math" for math.tsx (a Set and a       *)
(* safety counter) and "retry" for the try-again variant (an array and     *)
(* includes).  answers holds the values in the order they were added.      *)
(* The grid has AnswerSlots slots (16 in the source) and the distractors   *)
(* are drawn from 1..DistractorMax: fewer values than slots in easy mode   *)
(* (10 in the source), more in hard mode (20).                             *)
(***************************************************************************)
DistractorMax(diff) ==
    IF diff = "easy" THEN AnswerSlots - 2 ELSE AnswerSlots + 1

Includes(answers, value) == \E i \in 1..Len(answers) : answers[i] = value

\* the condition of the while loop
AnswersLoopCondition(g) ==
    IF g.version = "math"
    THEN Len(g.answers) < AnswerSlots /\ g.safetyCounter < MaxAttempts
    ELSE Len(g.answers) < AnswerSlots

\* the body of the loop that pushes every distractor drawn
AnswersLoopBody_NoCheck(g, distractor) ==
    [g EXCEPT !.answers = Append(@, distractor),
              !.safetyCounter = IF g.version = "math" THEN @ + 1 ELSE @]

\* the body of the loop for the distractor drawn: answerSet.add(distractor)
\* and safetyCounter++, or push if the array does not include it
AnswersLoopBody(g, distractor) ==
    [g EXCEPT !.answers = IF Includes(@, distractor) THEN @
                          ELSE Append(@, distractor),
              !.safetyCounter = IF g.version = "math" THEN @ + 1 ELSE @]

\* generateBubbleAnswers is called with the problem; the answer of a
\* generated problem lies in 0..DistractorMax
AnswersInit ==
    \E version \in {"math", "retry"} : \E diff \in {"easy", "hard"} :
      \E answer \in 0..DistractorMax(diff) :
        gen = [kind |-> "answers", version |-> version, difficulty |-> diff,
               answer |-> answer, answers |-> <<answer>>,
               safetyCounter |-> 0, bubbleAnswers |-> <<>>, done |-> FALSE]

\* one iteration of the loop with Math.random() giving distractor
AnswersIterate(distractor) ==
    /\ variant = "answers"
    /\ ~gen.done
    /\ AnswersLoopCondition(gen)
    /\ distractor \in 1..DistractorMax(gen.difficulty)
    /\ gen' = AnswersLoopBody(gen, distractor)
    /\ UNCHANGED <<variant, colors, math, retry, speed, balloon, free, theme, abc>>

\* the loop is left: setBubbleAnswers with the values, in the order the
\* sort leaves them in
AnswersSet ==
    /\ variant = "answers"
    /\ ~gen.done
    /\ ~AnswersLoopCondition(gen)
    /\ \E pos \in 1..Len(gen.answers) :
         gen' = [gen EXCEPT
                   !.bubbleAnswers =
                      [i \in 1..Len(gen.answers) |->
                          IF i = pos THEN gen.answers[1]
                          ELSE IF i = 1 THEN gen.answers[pos]
                          ELSE gen.answers[i]],
                   !.done = TRUE]
    /\ UNCHANGED <<variant, colors, math, retry, speed, balloon, free, theme, abc>>

NextAnswers ==
    \/ \E distractor \in 1..(AnswerSlots + 1) : AnswersIterate(distractor)
    \/ AnswersSet

\* C27: the generation of the population ends for every problem in both
\* difficulties, when each value Math.random() can give is drawn again and
\* again.
C27_GenerationTerminates ==
    (variant = "answers") ~> gen.done

\* C28: the population set for the round fills every slot of the grid.
C28_GridFilled ==
    (variant = "answers" /\ gen.done) =>
       Len(gen.bubbleAnswers) = AnswerSlots

\* C29: the population has exactly one item equal to the answer of the
\* problem and no two items are equal.
C29_OneAnswerDistinctDistractors ==
    (variant = "answers" /\ gen.done) =>
       /\ Cardinality({i \in 1..Len(gen.bubbleAnswers) :
                          gen.bubbleAnswers[i] = gen.answer}) = 1
       /\ \A i, j \in 1..Len(gen.bubbleAnswers) :
             i # j => gen.bubbleAnswers[i] # gen.bubbleAnswers[j]

\* a full grid in hard mode in which a distractor equal to the answer was
\* drawn and the answer is not in the first slot
C29_Witness ==
    /\ variant = "answers" /\ gen.done
    /\ gen.difficulty = "hard"
    /\ Len(gen.bubbleAnswers) = AnswerSlots
    /\ gen.bubbleAnswers[1] # gen.answer
    /\ gen.version = "math" /\ gen.safetyCounter > AnswerSlots - 1

(***************************************************************************)
(* Properties across the screens                                           *)
(***************************************************************************)
\* a wrong answer is shown popped in the arithmetic round
MathWrongPopped(m) ==
    \E i \in 1..MathCells :
       m.popStates[i] /\ m.bubbleAnswers[i] # m.currentProblem.answer

MathCorrectPopped(m) ==
    \E i \in 1..MathCells :
       m.popStates[i] /\ m.bubbleAnswers[i] = m.currentProblem.answer

\* C1: the score of every scored screen is never negative.
C1_ScoreNonNegative ==
    /\ variant = "colors"  => colors.score >= 0
    /\ variant = "math"    => math.score >= 0
    /\ variant = "retry"   => retry.score >= 0
    /\ variant = "speed"   => speed.score >= 0
    /\ variant = "balloon" => balloon.score >= 0

\* a wrong answer was popped with nothing to lose: the penalty was clamped
C1_Witness ==
    variant = "math" /\ math.mounted /\ math.score = 0
       /\ MathWrongPopped(math) /\ ~MathCorrectPopped(math)

SoundNames == {"correct", "celebration"}

SoundFresh ==
    [kind |-> "sound", soundCache |-> {}, calls |-> <<>>, logged |-> 0,
     handled |-> 0]

SoundInit == gen = SoundFresh

SoundSettled(g, i, how) ==
    [g EXCEPT !.calls[i].at = "settled", !.calls[i].promise = how]

\* loadSound up to its await: the cached sound, or Audio.Sound.createAsync
LoadSoundBody(g, i) ==
    IF g.calls[i].name \in g.soundCache
    THEN [g EXCEPT !.calls[i].at = "replayAsync"]
    ELSE [g EXCEPT !.calls[i].at = "createAsync"]

\* createAsync returned (ok) or threw: loadSound caches and returns the
\* sound, or logs and returns null, and playSound skips replayAsync
CreateAsyncBody(g, i, ok) ==
    IF ok
    THEN [g EXCEPT !.soundCache = @ \cup {g.calls[i].name},
                   !.calls[i].at = "replayAsync"]
    ELSE SoundSettled([g EXCEPT !.logged = @ + 1], i, "resolved")

\* playSound whose catch throws the error again
ReplayAsyncBody_Rethrow(g, i, ok) ==
    IF ok THEN SoundSettled(g, i, "resolved")
    ELSE SoundSettled([g EXCEPT !.logged = @ + 1], i, "rejected")

\* sound.replayAsync() returned (ok) or threw: playSound ends, after
\* logging the error in its catch
ReplayAsyncBody(g, i, ok) ==
    IF ok THEN SoundSettled(g, i, "resolved")
    ELSE SoundSettled([g EXCEPT !.logged = @ + 1], i, "resolved")

\* a handler calls playSound(name) and runs to its end
PlaySound(name) ==
    /\ variant = "sound"
    /\ Len(gen.calls) < SoundMaxCalls
    /\ gen' = [gen EXCEPT
                 !.calls = Append(@, [name |-> name, at |-> "loadSound",
                                      promise |-> "pending", failed |-> FALSE]),
                 !.handled = @ + 1]
    /\ UNCHANGED <<variant, colors, math, retry, speed, balloon, free, theme, abc>>

LoadSound(i) ==
    /\ variant = "sound"
    /\ i \in 1..Len(gen.calls) /\ gen.calls[i].at = "loadSound"
    /\ gen' = LoadSoundBody(gen, i)
    /\ UNCHANGED <<variant, colors, math, retry, speed, balloon, free, theme, abc>>

CreateAsyncDone(i) ==
    /\ variant = "sound"
    /\ i \in 1..Len(gen.calls) /\ gen.calls[i].at = "createAsync"
    /\ \E ok \in BOOLEAN :
         gen' = CreateAsyncBody([gen EXCEPT !.calls[i].failed = ~ok], i, ok)
    /\ UNCHANGED <<variant, colors, math, retry, speed, balloon, free, theme, abc>>

ReplayAsyncDone(i) ==
    /\ variant = "sound"
    /\ i \in 1..Len(gen.calls) /\ gen.calls[i].at = "replayAsync"
    /\ \E ok \in BOOLEAN :
         gen' = ReplayAsyncBody([gen EXCEPT !.calls[i].failed = ~ok], i, ok)
    /\ UNCHANGED <<variant, colors, math, retry, speed, balloon, free, theme, abc>>

NextSound ==
    \/ \E name \in SoundNames : PlaySound(name)
    \/ \E i \in 1..SoundMaxCalls :
         LoadSound(i) \/ CreateAsyncDone(i) \/ ReplayAsyncDone(i)

\* C37: no call of playSound ends with a rejected promise, whether loading
\* or playing failed; every handler that called playSound ran to its end;
\* and the steps of a call change nothing but the call, the cache and the
\* log.
C37_CueFailureSwallowed ==
    variant = "sound" =>
       /\ \A i \in 1..Len(gen.calls) :
            /\ gen.calls[i].promise # "rejected"
            /\ gen.calls[i].at = "settled" <=> gen.calls[i].promise = "resolved"
            /\ gen.calls[i].failed => gen.calls[i].promise = "resolved"
       /\ gen.handled = Len(gen.calls)

\* a call whose createAsync threw and a call whose replayAsync threw have
\* both settled
C37_Witness ==
    /\ variant = "sound"
    /\ \E i, j \in 1..Len(gen.calls) :
         /\ gen.calls[i].failed /\ gen.calls[i].promise = "resolved"
         /\ gen.calls[i].name \notin gen.soundCache
         /\ gen.calls[j].failed /\ gen.calls[j].promise = "resolved"
         /\ gen.calls[j].name \in gen.soundCache
    /\ gen.logged >= 2

(***************************************************************************)
(* Initial placement of the balloons: the for loop of initializeBalloons   *)
(* (balloon.tsx) with its do-while loop, one iteration of the do-while     *)
(* loop per step.                                                          *)
(*                                                                         *)
(* gen.newBalloons : the balloons pushed so far, as records of x and size. *)
(* gen.attempts    : the attempts counter of the balloon being placed.     *)
(* gen.tried       : for every balloon pushed, the value of attempts when  *)
(*                   it was pushed, i.e. the candidates created for it.    *)
(* createBalloon draws size from 70..100 and x from 0..SCREEN_WIDTH-size;  *)
(* the model draws the smallest and the largest size and two positions.    *)
(***************************************************************************)
\* twice the distance of the centres, to stay in the integers
PlaceAbs(n) == IF n < 0 THEN 0 - n ELSE n

\* isOverlapping(candidateX, candidateSize, balloons)
isOverlapping(candidateX, candidateSize, balloons) ==
    \E k \in 1..Len(balloons) :
        LET b == balloons[k]
        IN  PlaceAbs((2 * candidateX + candidateSize) - (2 * b.x + b.size))
               < (candidateSize + b.size) + 2 * 10

\* the x and size createBalloon can give
PlaceCandidates ==
    {c \in [x : {0, 100}, size : {70, 100}] : c.x <= SCREEN_WIDTH - c.size}

\* the do-while loop without its break
PlaceIterateBody_NoBreak(g, candidate) ==
    LET attempts == g.attempts + 1
    IN  IF isOverlapping(candidate.x, candidate.size, g.newBalloons)
        THEN [g EXCEPT !.attempts = attempts]
        ELSE [g EXCEPT !.newBalloons = Append(@, candidate),
                       !.tried = Append(@, attempts),
                       !.attempts = 0,
                       !.done = Len(g.newBalloons) + 1 >= g.count]

\* one iteration of the do-while loop with the candidate createBalloon
\* gave: attempts++, break if attempts > 10, loop while it overlaps;
\* after the loop the balloon is pushed and the for loop goes on
PlaceIterateBody(g, candidate) ==
    LET attempts == g.attempts + 1
    IN  IF attempts <= PLACE_ATTEMPTS
           /\ isOverlapping(candidate.x, candidate.size, g.newBalloons)
        THEN [g EXCEPT !.attempts = attempts]
        ELSE [g EXCEPT !.newBalloons = Append(@, candidate),
                       !.tried = Append(@, attempts),
                       !.attempts = 0,
                       !.done = Len(g.newBalloons) + 1 >= g.count]

\* initializeBalloons is entered with count balloons to place
PlaceInit ==
    \E count \in 1..PlaceCount :
        gen = [kind |-> "place", count |-> count, newBalloons |-> <<>>,
               tried |-> <<>>, attempts |-> 0, done |-> FALSE]

PlaceIterate ==
    /\ variant = "place"
    /\ ~gen.done
    /\ \E candidate \in PlaceCandidates :
         gen' = PlaceIterateBody(gen, candidate)
    /\ UNCHANGED <<variant, colors, math, retry, speed, balloon, free, theme, abc>>

\* C36 as stated: no balloon needs more than 10 candidates.
C36_AtMostTenCandidates ==
    variant = "place" =>
       /\ gen.attempts <= 10
       /\ \A k \in 1..Len(gen.tried) : gen.tried[k] <= 10

\* C36: the placement of every balloon ends: the balloon pushed is either
\* a candidate at the minimum distance or more from every balloon pushed
\* before it, or the 11th candidate created for it; no balloon needs more
\* than 11 candidates.
C36_AtMostElevenCandidates ==
    variant = "place" =>
       /\ gen.attempts <= 10
       /\ Len(gen.newBalloons) <= gen.count
       /\ gen.done <=> Len(gen.newBalloons) = gen.count
       /\ \A k \in 1..Len(gen.tried) :
            /\ gen.tried[k] <= 11
            /\ gen.tried[k] < 11 =>
                  ~isOverlapping(gen.newBalloons[k].x, gen.newBalloons[k].size,
                                 SubSeq(gen.newBalloons, 1, k - 1))

\* a placement that ended with a balloon pushed as the 11th candidate and
\* overlapping the balloon before it
C36_Witness ==
    /\ variant = "place" /\ gen.done
    /\ \E k \in 2..Len(gen.tried) :
         /\ gen.tried[k] = 11
         /\ isOverlapping(gen.newBalloons[k].x, gen.newBalloons[k].size,
                          SubSeq(gen.newBalloons, 1, k - 1))

(***************************************************************************)
(* The letter and number screen: AbcGame (part_004)                        *)
(*                                                                         *)
(* abc.timeouts counts the setTimeout callbacks of completed rounds that   *)
(* have not run yet; nothing in the component clears them.  A callback     *)
(* and the effects of the render that follows it are one step: the values  *)
(* an initializeGame of an earlier render sets are set again by the mount  *)
(* effect, which runs whenever mode or currentIndex changed.               *)
(***************************************************************************)
\* ALPHABET and NUMBERS in their order (26 letters and 10 numbers in the
\* source)
AbcCatalog(mode) ==
    IF mode = "alphabet" THEN <<"A", "B", "C">> ELSE <<"1", "2">>

\* a target index that stops at the last item
AbcTargetIndex_NoWrap(currentIndex, length) ==
    IF currentIndex < length THEN currentIndex ELSE length - 1

\* const targetIndex = currentIndex % items.length
AbcTargetIndex(currentIndex, length) == currentIndex % length

\* the contents initializeGame can set: targetCount times the target and
\* other items of the catalog on the remaining spots, in any order
AbcPopulations(items, target) ==
    {c \in [1..AbcCells -> {items[p] : p \in 1..Len(items)}] :
        Cardinality({i \in 1..AbcCells : c[i] = target}) = AbcTargetCount}

\* initializeGame(newMode) in a render with the given mode and currentIndex
AbcInitializeGame(a, gameMode, currentIndex) ==
    LET items  == AbcCatalog(gameMode)
        target == items[AbcTargetIndex(currentIndex, Len(items)) + 1]
    IN  {[a EXCEPT !.popStates = AllFalse(AbcCells),
                   !.showCelebration = FALSE,
                   !.currentTarget = target,
                   !.bubbleContents = c] : c \in AbcPopulations(items, target)}

AbcFresh ==
    [mounted |-> FALSE, mode |-> "alphabet", currentTarget |-> "",
     currentIndex |-> 0, bubbleContents |-> <<>>, popStates |-> <<>>,
     showCelebration |-> FALSE, completedCount |-> 0, timeouts |-> 0]

\* the mount effect calls initializeGame()
AbcInit ==
    abc \in AbcInitializeGame([AbcFresh EXCEPT !.mounted = TRUE],
                              "alphabet", 0)

\* the targets of the round that are not popped in the given pop states
AbcRemainingTargets(a, states) ==
    {i \in 1..AbcCells : a.bubbleContents[i] = a.currentTarget /\ ~states[i]}

\* handlePop without the comparison of the content with the target
AbcHandlePopBody_NoContentCheck(a, index) ==
    LET newPopStates == [a.popStates EXCEPT ![index] = TRUE]
        popped       == [a EXCEPT !.popStates = newPopStates]
    IN  IF a.popStates[index] THEN a
        ELSE IF AbcRemainingTargets(a, newPopStates) = {}
        THEN [popped EXCEPT !.showCelebration = TRUE,
                            !.completedCount = @ + 1,
                            !.timeouts = @ + 1]
        ELSE popped

\* handlePop(index, content)
AbcHandlePopBody(a, index) ==
    LET newPopStates == [a.popStates EXCEPT ![index] = TRUE]
        popped       == [a EXCEPT !.popStates = newPopStates]
    IN  IF a.popStates[index] THEN a
        ELSE IF a.bubbleContents[index] = a.currentTarget
                  /\ AbcRemainingTargets(a, newPopStates) = {}
        THEN [popped EXCEPT !.showCelebration = TRUE,
                            !.completedCount = @ + 1,
                            !.timeouts = @ + 1]
        ELSE popped

\* a press on bubble index
AbcHandlePop(index) ==
    /\ variant = "abc"
    /\ abc.mounted
    /\ PopBubbleHandlePress(abc.popStates[index], FALSE)
    /\ AbcHandlePopBody(abc, index).completedCount <= AbcMaxCompleted
    /\ abc' = AbcHandlePopBody(abc, index)
    /\ UNCHANGED <<variant, colors, math, retry, speed, balloon, free, gen, theme>>

\* the callback of a completed round, 2000 ms after its last pop:
\* setCurrentIndex(prev + 1) and initializeGame(); the mount effect then
\* runs initializeGame() of the render with the new index
AbcNextRoundFires ==
    /\ variant = "abc"
    /\ abc.timeouts > 0
    /\ IF abc.mounted
       THEN abc' \in AbcInitializeGame(
                        [abc EXCEPT !.timeouts = @ - 1,
                                    !.currentIndex = @ + 1],
                        abc.mode, abc.currentIndex + 1)
       ELSE abc' = [abc EXCEPT !.timeouts = @ - 1]
    /\ UNCHANGED <<variant, colors, math, retry, speed, balloon, free, gen, theme>>

\* switchMode: setMode(newMode), setCurrentIndex(0), initializeGame(newMode);
\* the mount effect then runs initializeGame() of the render with the new
\* mode and index 0
AbcSwitchMode ==
    /\ variant = "abc"
    /\ abc.mounted
    /\ LET newMode == IF abc.mode = "alphabet" THEN "numbers" ELSE "alphabet"
       IN  abc' \in AbcInitializeGame(
                       [abc EXCEPT !.mode = newMode, !.currentIndex = 0],
                       newMode, 0)
    /\ UNCHANGED <<variant, colors, math, retry, speed, balloon, free, gen, theme>>

AbcUnmount ==
    /\ variant = "abc"
    /\ abc.mounted
    /\ abc' = [abc EXCEPT !.mounted = FALSE]
    /\ UNCHANGED <<variant, colors, math, retry, speed, balloon, free, gen, theme>>

NextAbc ==
    \/ \E index \in 1..AbcCells : AbcHandlePop(index)
    \/ AbcNextRoundFires
    \/ AbcSwitchMode
    \/ AbcUnmount

\* the position of an item in its catalog
AbcPosition(items, item) == CHOOSE p \in 1..Len(items) : items[p] = item

\* C31: the round that follows a completed round has the target one
\* position further in the catalog of the mode, the first item after the
\* last one; a mode starts at the first item of its catalog; and the target
\* changes in no other step.
C31_TargetsFollowCatalog ==
    [][/\ (variant = "abc" /\ abc.mounted /\ AbcNextRoundFires)
            => LET items == AbcCatalog(abc.mode)
                   pos   == AbcPosition(items, abc.currentTarget)
               IN  abc'.currentTarget
                      = items[IF pos = Len(items) THEN 1 ELSE pos + 1]
       /\ (variant = "abc" /\ AbcSwitchMode)
            => abc'.currentTarget = AbcCatalog(abc'.mode)[1]
       /\ (variant = "abc" /\ abc'.currentTarget # abc.currentTarget)
            => (AbcNextRoundFires \/ AbcSwitchMode)]_vars

\* the round after the last letter is under way: its target is the first
\* letter again
C31_Witness ==
    /\ variant = "abc" /\ abc.mounted /\ abc.mode = "alphabet"
    /\ abc.currentIndex = Len(AbcCatalog("alphabet"))
    /\ abc.currentTarget = AbcCatalog("alphabet")[1]

\* C34: a pop on an item that is not the target, in the colour grid and in
\* the letter grid, marks that item popped and, in the colour grid, lowers
\* the score by 5 but not below 0 (and may speak); the target, the other
\* items, the remaining count, the progress counters, the timers and the
\* state of the round stay as they are.
C34_NonTargetPopFrame ==
    [][/\ \A i \in 1..ColorsCells :
            (variant = "colors" /\ colors.mounted /\ colors.gameActive
               /\ ~colors.popped[i]
               /\ colors.bubbleColors[i] # colors.targetColor
               /\ ColorsHandlePop(i))
              => colors' = [colors EXCEPT !.popped[i] = TRUE,
                                          !.score = Max(0, @ - 5),
                                          !.speech = colors'.speech]
       /\ \A i \in 1..AbcCells :
            (variant = "abc" /\ abc.mounted /\ ~abc.popStates[i]
               /\ abc.bubbleContents[i] # abc.currentTarget
               /\ AbcHandlePop(i))
              => abc' = [abc EXCEPT !.popStates[i] = TRUE]]_vars

\* a colour round in which a hit was followed by a pop on another colour,
\* and a letter round whose only popped bubble is not the target
C34_Witness ==
    \/ /\ variant = "colors" /\ colors.mounted /\ colors.gameActive
       /\ colors.score = 5
       /\ \E i \in 1..ColorsCells :
             colors.popped[i] /\ colors.bubbleColors[i] # colors.targetColor
    \/ /\ variant = "abc" /\ abc.mounted /\ ~abc.showCelebration
       /\ \E i \in 1..AbcCells :
             /\ abc.bubbleContents[i] # abc.currentTarget
             /\ \A j \in 1..AbcCells : abc.popStates[j] <=> j = i

(***************************************************************************)
(* Specifications: one screen is mounted at a time                         *)
(***************************************************************************)
\* the screens that are not open stay as constructed
Closed(v) ==
    /\ v # "colors"  => colors = ColorsFresh
    /\ v # "math"    => math = MathFresh("full")
    /\ v # "retry"   => retry = RetryFresh
    /\ v # "speed"   => speed = SpeedFresh
    /\ v # "balloon" => balloon = BalloonFresh
    /\ v # "free"    => free = FreeFresh
    /\ v \notin {"gen", "problem", "answers", "place", "sound"}
          => gen = GenFresh
    /\ v # "theme"   => theme = ThemeFresh
    /\ v # "abc"     => abc = AbcFresh

InitColors == variant = "colors" /\ ColorsInit /\ Closed("colors")

SpecColors == InitColors /\ [][NextColors]_vars

InitMath == variant = "math" /\ MathInit /\ Closed("math")

SpecMath == InitMath /\ [][NextMath]_vars

\* timers, the speech module and the event loop do run; the player and the
\* operating system need not act
MathSystemStep ==
    \/ \E d \in {"stale", "current"} : MathStartDelayFires(d)
    \/ \E h \in math.hintTimeouts : MathHintFires(h)
    \/ \E clo \in math.initDelays : MathInitDelayFires(clo)
    \/ MathSpeechDone
    \/ \E e \in math.events : MathDeliverEvent(e)

FairSpecMath == SpecMath /\ WF_vars(MathSystemStep)

InitRetry == variant = "retry" /\ RetryInit /\ Closed("retry")

SpecRetry == InitRetry /\ [][NextRetry]_vars

InitSpeed == variant = "speed" /\ SpeedInit /\ Closed("speed")

\* the fixed-duration variants: speed mode and the timed colour round
SpecTimed == (InitSpeed \/ InitColors) /\ [][NextSpeed \/ NextColors]_vars

InitBalloon == variant = "balloon" /\ BalloonInit /\ Closed("balloon")

SpecBalloon == InitBalloon /\ [][NextBalloon]_vars

\* the interval callback and the restart delay run when they are due
FairSpecBalloon ==
    /\ SpecBalloon
    /\ WF_vars(BalloonOffScreenReplace)
    /\ WF_vars(\E clo \in balloon.initDelays : BalloonInitDelayFires(clo))

InitGen == variant = "gen" /\ GenInit /\ Closed("gen")

SpecGen == InitGen /\ [][NextGen]_vars

InitProblem == variant = "problem" /\ ProblemInit /\ Closed("problem")

SpecProblem == InitProblem /\ [][ProblemGenerate]_vars

InitAnswers == variant = "answers" /\ AnswersInit /\ Closed("answers")

SpecAnswers == InitAnswers /\ [][NextAnswers]_vars

\* every value Math.random() can give is drawn again and again
FairSpecAnswers ==
    /\ SpecAnswers
    /\ \A distractor \in 1..(AnswerSlots + 1) :
          WF_vars(AnswersIterate(distractor))
    /\ WF_vars(AnswersSet)

InitTheme == variant = "theme" /\ ThemeInit /\ Closed("theme")

SpecTheme == InitTheme /\ [][NextTheme]_vars

InitPlace == variant = "place" /\ PlaceInit /\ Closed("place")

SpecPlace == InitPlace /\ [][PlaceIterate]_vars

InitSound == variant = "sound" /\ SoundInit /\ Closed("sound")

SpecSound == InitSound /\ [][NextSound]_vars

InitAbc == variant = "abc" /\ AbcInit /\ Closed("abc")

SpecAbc == InitAbc /\ [][NextAbc]_vars

\* the two grids in which a bubble can hold something else than the target
SpecGrid == (InitColors \/ InitAbc) /\ [][NextColors \/ NextAbc]_vars

InitFree == variant = "free" /\ FreeInit /\ Closed("free")

SpecFree == InitFree /\ [][NextFree]_vars

\* the callbacks that are due run
FreeCallbackStep ==
    \/ FreeInactivityFires
    \/ FreeHintFires
    \/ \E a \in free.announce : FreeAnnounceFires(a)
    \/ \E n \in free.nextShape : FreeNextShapeFires(n)

\* time passes, callbacks that are due run, and the player keeps popping
FairSpecFree ==
    /\ SpecFree
    /\ WF_vars(FreeTick)
    /\ WF_vars(FreeCallbackStep)
    /\ SF_vars(\E index \in 1..FreeCells : FreeHandlePop(index))

\* any one of the screens
Init ==
    InitColors \/ InitMath \/ InitRetry \/ InitSpeed \/ InitBalloon \/ InitFree
       \/ InitTheme

Next ==
    NextColors \/ NextMath \/ NextRetry \/ NextSpeed \/ NextBalloon \/ NextFree
       \/ NextTheme

Spec == Init /\ [][Next]_vars

====
